---- MODULE Spec2Model ----
(***************************************************************************)
(* A model of ecommerce_checkout_analysis.py (class CheckoutAnalyzer):     *)
(* the ELB log line parser, the URL / user-agent classifiers, the single   *)
(* pass of analyze_logs over the lines of the log files, and the report    *)
(* sections that derive the tables and rates from the three record lists.  *)
(*                                                                         *)
(* Text is modelled as TLA+ strings, scanned character by character.       *)
(* Durations are kept in thousandths of a second (exact for the decimal    *)
(* literals with at most three fraction digits that the model feeds in).   *)
(* An optional value (Python None) is a sequence: <<>> or <<v>>.           *)
(***************************************************************************)
EXTENDS Integers, Sequences, FiniteSets, TLC

VARIABLES
    pc,                 \* position of run() / analyze_logs()
    n_files,            \* len(self.log_files)
    processed_files,    \* analyze_logs: processed_files
    input,              \* the lines read so far, each <<file number, raw line>>
    total_lines,        \* analyze_logs: total_lines
    parsed_lines,       \* analyze_logs: parsed_lines
    all_requests,       \* analyze_logs: all_requests
    checkout_requests,  \* analyze_logs: checkout_requests
    checkout_errors,    \* analyze_logs: checkout_errors
    report,             \* what the report sections have computed so far
    cl_pc,              \* classifier harness: "input" or "classified"
    cl_url,             \* classifier harness: the URL under test
    cl_out,             \* classifier harness: the labels computed for cl_url
    tr_pc,              \* trend harness: "input" or "labelled"
    tr_stats,           \* trend harness: the daily_stats table under test
    tr_rows,            \* trend harness: the rows computed for tr_stats
    pa_pc,              \* parser harness: "input" or "parsed"
    pa_client,          \* parser harness: the client:port field under test
    pa_target,          \* parser harness: the target:port field under test
    pa_out              \* parser harness: what parse_log_line returned

pipeline_vars == <<pc, n_files, processed_files, input, total_lines, parsed_lines,
                   all_requests, checkout_requests, checkout_errors, report>>
classifier_vars == <<cl_pc, cl_url, cl_out>>
trend_vars == <<tr_pc, tr_stats, tr_rows>>
parser_vars == <<pa_pc, pa_client, pa_target, pa_out>>
harness_vars == <<cl_pc, cl_url, cl_out, tr_pc, tr_stats, tr_rows,
                  pa_pc, pa_client, pa_target, pa_out>>
vars == <<pc, n_files, processed_files, input, total_lines, parsed_lines,
          all_requests, checkout_requests, checkout_errors, report,
          cl_pc, cl_url, cl_out, tr_pc, tr_stats, tr_rows,
          pa_pc, pa_client, pa_target, pa_out>>

-----------------------------------------------------------------------------
(* Bounds of the model.                                                    *)

MaxFiles == 2
MaxLines == 2
MaxFrags == 2

-----------------------------------------------------------------------------
(* Strings.                                                                *)

Ch(s, i) == SubSeq(s, i, i)

UpperAlphabet == "ABCDEFGHIJKLMNOPQRSTUVWXYZ"
LowerAlphabet == "abcdefghijklmnopqrstuvwxyz"

\* str.lower() on one (ASCII) character
LowerCh(c) ==
    IF \E i \in 1..Len(UpperAlphabet) : Ch(UpperAlphabet, i) = c
    THEN Ch(LowerAlphabet, CHOOSE i \in 1..Len(UpperAlphabet) : Ch(UpperAlphabet, i) = c)
    ELSE c

RECURSIVE ToLower(_)
\* str.lower()
ToLower(s) == IF s = "" THEN "" ELSE LowerCh(Head(s)) \o ToLower(Tail(s))

\* Python's  t in s  on strings
Contains(s, t) ==
    \E i \in 1..(Len(s) - Len(t) + 1) : SubSeq(s, i, i + Len(t) - 1) = t

\* any(term in s for term in terms)
AnyTermIn(terms, s) == \E k \in 1..Len(terms) : Contains(s, terms[k])

\* re.compile(r'(?i)(?:' + '|'.join(patterns) + r')').search(s): the patterns
\* hold no regex metacharacter, so each alternative is a literal matched
\* without regard to case anywhere in s.
RegexSearch(patterns, s) ==
    \E k \in 1..Len(patterns) : Contains(ToLower(s), ToLower(patterns[k]))

\* str.split(sep)[0] for a one-character sep: the text before the first sep
RECURSIVE BeforeFirst(_, _)
BeforeFirst(s, sep) ==
    IF s = "" \/ Head(s) = sep THEN "" ELSE Head(s) \o BeforeFirst(Tail(s), sep)

\* str.split(' '): the pieces between single spaces (empty pieces kept)
RECURSIVE SplitOn(_, _)
SplitAfter(s, first, sep) ==
    IF Len(first) = Len(s) THEN <<s>>
    ELSE <<first>> \o SplitOn(SubSeq(s, Len(first) + 2, Len(s)), sep)

SplitOn(s, sep) == SplitAfter(s, BeforeFirst(s, sep), sep)

RECURSIVE StripQuotes(_)
\* str.strip of double quotes
StripQuotes(s) ==
    IF s # "" /\ Head(s) = "\"" THEN StripQuotes(Tail(s))
    ELSE IF s # "" /\ Ch(s, Len(s)) = "\"" THEN StripQuotes(SubSeq(s, 1, Len(s) - 1))
    ELSE s

-----------------------------------------------------------------------------
(* Configuration of __init__.                                              *)

checkout_patterns ==
    << "/cart/", "/shopping-cart/", "/basket/", "/bag/", "checkout/cart",
       "cart/add", "cart/update", "cart/remove",
       "/checkout/", "checkout/", "onepage", "guest-checkout", "checkout/onepage",
       "checkout/success", "checkout/complete", "checkout/review", "checkout/billing",
       "checkout/shipping", "checkout/payment",
       "/payment/", "/pay/", "paypal", "stripe", "amazon-pay", "amazonpay",
       "apple-pay", "applepay", "google-pay", "googlepay", "klarna", "afterpay",
       "affirm", "/billing/", "credit-card", "creditcard",
       "/order/", "/orders/", "order/success", "order/complete", "order/confirmation",
       "order-confirmation", "checkout/success", "thank-you", "thankyou",
       "receipt", "order-receipt" >>

bot_patterns ==
    << "bot", "crawler", "spider", "scraper", "curl", "wget", "python", "java",
       "http_request", "postman", "insomnia", "user-agent", "test", "monitor",
       "uptime", "pingdom", "datadog", "newrelic", "googlebot", "bingbot",
       "facebookexternalhit", "twitterbot", "linkedinbot", "whatsapp", "telegram" >>

mobile_patterns == << "mobile", "android", "iphone", "ipad", "tablet", "phone" >>

-----------------------------------------------------------------------------
(* The classifiers.                                                        *)

is_checkout_related(url) == RegexSearch(checkout_patterns, url)

is_bot_traffic(user_agent) == RegexSearch(bot_patterns, user_agent)

is_mobile_traffic(user_agent) == RegexSearch(mobile_patterns, user_agent)

PatternCartTerms == << "/cart/", "cart/add", "cart/update", "cart/remove", "/basket/", "/bag/" >>
PatternPaymentTerms ==
    << "paypal", "stripe", "amazon-pay", "apple-pay", "google-pay", "klarna",
       "afterpay", "affirm", "/payment/", "/pay/", "/billing/", "credit-card" >>
PatternOrderTerms ==
    << "/order/", "/orders/", "order/success", "order/complete", "checkout/success",
       "thank-you", "thankyou", "receipt", "confirmation" >>
PatternCheckoutTerms == << "/checkout/", "checkout/", "onepage", "guest-checkout" >>

\* the chain with the checkout test moved before the payment test
PatternChain_CheckoutBeforePayment(url_lower) ==
    IF AnyTermIn(PatternCartTerms, url_lower) THEN "Shopping Cart"
    ELSE IF AnyTermIn(PatternCheckoutTerms, url_lower) THEN "Checkout Process"
    ELSE IF AnyTermIn(PatternPaymentTerms, url_lower) THEN "Payment Processing"
    ELSE IF AnyTermIn(PatternOrderTerms, url_lower) THEN "Order Completion"
    ELSE "Other Checkout"

\* the chain of get_pattern_category on url_lower
PatternChain(url_lower) ==
    IF AnyTermIn(PatternCartTerms, url_lower) THEN "Shopping Cart"
    ELSE IF AnyTermIn(PatternPaymentTerms, url_lower) THEN "Payment Processing"
    ELSE IF AnyTermIn(PatternOrderTerms, url_lower) THEN "Order Completion"
    ELSE IF AnyTermIn(PatternCheckoutTerms, url_lower) THEN "Checkout Process"
    ELSE "Other Checkout"

get_pattern_category(url) == PatternChain(ToLower(url))

StageCartTerms == << "cart", "basket", "bag", "shopping-cart" >>
StageInitTerms == << "checkout/start", "checkout/begin", "checkout/init" >>
StageShippingTerms == << "shipping", "delivery", "address" >>
StagePaymentTerms == << "payment", "pay", "billing", "paypal", "stripe", "credit" >>
StageCompletionTerms == << "success", "complete", "confirmation", "receipt", "thank" >>
StageAccountTerms == << "login", "register", "account", "signup" >>

\* the chain with the payment test moved before the cart test
StageChain_PaymentBeforeCart(url_lower) ==
    IF AnyTermIn(StagePaymentTerms, url_lower) THEN "Payment Processing"
    ELSE IF AnyTermIn(StageCartTerms, url_lower) THEN "Cart Operations"
    ELSE IF AnyTermIn(StageInitTerms, url_lower) THEN "Checkout Initiation"
    ELSE IF AnyTermIn(StageShippingTerms, url_lower) THEN "Shipping/Address"
    ELSE IF AnyTermIn(StageCompletionTerms, url_lower) THEN "Order Completion"
    ELSE IF AnyTermIn(StageAccountTerms, url_lower) THEN "Account/Authentication"
    ELSE IF Contains(url_lower, "checkout") THEN "General Checkout"
    ELSE "Other E-commerce"

\* the chain of categorize_checkout_stage on url_lower
StageChain(url_lower) ==
    IF AnyTermIn(StageCartTerms, url_lower) THEN "Cart Operations"
    ELSE IF AnyTermIn(StageInitTerms, url_lower) THEN "Checkout Initiation"
    ELSE IF AnyTermIn(StageShippingTerms, url_lower) THEN "Shipping/Address"
    ELSE IF AnyTermIn(StagePaymentTerms, url_lower) THEN "Payment Processing"
    ELSE IF AnyTermIn(StageCompletionTerms, url_lower) THEN "Order Completion"
    ELSE IF AnyTermIn(StageAccountTerms, url_lower) THEN "Account/Authentication"
    ELSE IF Contains(url_lower, "checkout") THEN "General Checkout"
    ELSE "Other E-commerce"

categorize_checkout_stage(url) == StageChain(ToLower(url))

-----------------------------------------------------------------------------
(* parse_log_line: the regular expression.                                 *)
(* Twelve fields of non-blank characters, each followed by blanks; two     *)
(* fields in double quotes that hold no double quote, each followed by     *)
(* blanks; two more fields of non-blank characters separated by blanks.    *)
(* Every quantifier is greedy and is followed by a character class that    *)
(* excludes what it repeats (or by nothing), so the leftmost-longest scan  *)
(* below finds a match exactly when re.match does, with the same groups.   *)

IsSpace(c) == c \in {" ", "\t", "\n", "\r", "\f"}

InClass(c, cls) ==
    CASE cls = "S" -> ~IsSpace(c)      \* a non-blank character
      [] cls = "s" -> IsSpace(c)       \* a blank character
      [] cls = "q" -> c # "\""         \* any character but a double quote

RECURSIVE EndOfRun(_, _, _)
\* the first position j >= i with j past the end of s or s[j] not in cls
EndOfRun(s, i, cls) ==
    IF i > Len(s) \/ ~InClass(Ch(s, i), cls) THEN i ELSE EndOfRun(s, i + 1, cls)

\* the pattern, item by item: S is a group of one or more non-blanks, s is
\* one or more blanks, Q is a literal double quote, q is a group of zero or
\* more characters other than a double quote
LogPattern ==
    << "S", "s", "S", "s", "S", "s", "S", "s", "S", "s", "S", "s",
       "S", "s", "S", "s", "S", "s", "S", "s", "S", "s", "S", "s",
       "Q", "q", "Q", "s", "Q", "q", "Q", "s", "S", "s", "S" >>

RECURSIVE MatchFrom(_, _, _, _)

\* a run of the class of the item from i to j - 1: the run may be empty for
\* q only; S and q are groups
MatchRun(line, i, j, k, groups) ==
    IF j = i /\ LogPattern[k] # "q" THEN <<>>
    ELSE MatchFrom(line, j, k + 1,
                   IF LogPattern[k] = "s" THEN groups
                   ELSE Append(groups, SubSeq(line, i, j - 1)))

\* re.match(pattern, line): <<groups>> when the items from the k-th on match
\* line from position i, <<>> when they do not
MatchFrom(line, i, k, groups) ==
    IF k > Len(LogPattern) THEN <<groups>>
    ELSE IF LogPattern[k] = "Q"
    THEN (IF i <= Len(line) /\ Ch(line, i) = "\""
          THEN MatchFrom(line, i + 1, k + 1, groups)
          ELSE <<>>)
    ELSE MatchRun(line, i, EndOfRun(line, i, LogPattern[k]), k, groups)

-----------------------------------------------------------------------------
(* parse_log_line: the numeric conversions.  Each returns ok = TRUE and    *)
(* the value, or ok = FALSE where Python raises ValueError.  The literals  *)
(* covered are the                                                         *)
(* signed ASCII decimals; exponents, inf, nan and digit separators, which  *)
(* Python also accepts, are not fed to the model.                          *)

DigitChars == "0123456789"

IsDigit(c) == \E i \in 1..Len(DigitChars) : Ch(DigitChars, i) = c

DigitValue(c) == (CHOOSE i \in 1..Len(DigitChars) : Ch(DigitChars, i) = c) - 1

AllDigits(s) == \A i \in 1..Len(s) : IsDigit(Ch(s, i))

RECURSIVE DigitsToNat(_, _)
DigitsToNat(s, acc) ==
    IF s = "" THEN acc ELSE DigitsToNat(Tail(s), acc * 10 + DigitValue(Head(s)))

HasSign(s) == s # "" /\ Head(s) \in {"+", "-"}

Unsigned(s) == IF HasSign(s) THEN Tail(s) ELSE s

Signed(s, v) == IF HasSign(s) /\ Head(s) = "-" THEN 0 - v ELSE v

IntOfDigits(s, body) ==
    IF body # "" /\ AllDigits(body)
    THEN [ok |-> TRUE, v |-> Signed(s, DigitsToNat(body, 0))]
    ELSE [ok |-> FALSE, v |-> 0]

\* int(s)
ParseInt(s) == IntOfDigits(s, Unsigned(s))

\* the value of a decimal with the digits whole before the point and frac
\* after it, in thousandths
DecimalOfDigits(s, whole, frac) ==
    IF AllDigits(whole) /\ AllDigits(frac) /\ Len(whole) + Len(frac) > 0
    THEN [ok |-> TRUE,
          v |-> Signed(s, DigitsToNat(whole, 0) * 1000
                          + DigitsToNat(SubSeq(frac \o "000", 1, 3), 0))]
    ELSE [ok |-> FALSE, v |-> 0]

DecimalOfParts(s, body, whole) ==
    DecimalOfDigits(s, whole,
                    IF Len(whole) < Len(body)
                    THEN SubSeq(body, Len(whole) + 2, Len(body)) ELSE "")

DecimalOfBody(s, body) == DecimalOfParts(s, body, BeforeFirst(body, "."))

\* float(s), in thousandths
ParseFloat(s) == DecimalOfBody(s, Unsigned(s))

-----------------------------------------------------------------------------
(* parse_log_line.                                                         *)

PyNone == [kind |-> "None"]

PyRaise(exc) == [kind |-> exc]

\* the except clause of parse_log_line
CaughtByParse == {"ValueError", "IndexError", "AttributeError"}

\* float(g) if g != '-1' else -1
LatencyField(g) == IF g # "-1" THEN ParseFloat(g) ELSE [ok |-> TRUE, v |-> 0 - 1000]

OptionalInt(parsed) == [ok |-> parsed.ok, v |-> <<parsed.v>>]

\* int(g) if g != '-' else None
StatusField(g) == IF g # "-" THEN OptionalInt(ParseInt(g)) ELSE [ok |-> TRUE, v |-> <<>>]

\* int(g) if g != '-' else 0
BytesField(g) == IF g # "-" THEN ParseInt(g) ELSE [ok |-> TRUE, v |-> 0]

\* the dict returned, once the numeric fields are converted: a conversion
\* that failed has raised ValueError
ParsedDict(groups, rpt, bpt, spt, elb, bsc, rcv, snt) ==
    IF ~(rpt.ok /\ bpt.ok /\ spt.ok /\ elb.ok /\ bsc.ok /\ rcv.ok /\ snt.ok)
    THEN PyRaise("ValueError")
    ELSE [ kind |-> "dict",
           dict |->
             [ timestamp |-> groups[2],
               client_ip |-> BeforeFirst(groups[4], ":"),
               target_ip |-> IF groups[5] # "-" THEN <<BeforeFirst(groups[5], ":")>> ELSE <<>>,
               request_processing_time |-> rpt.v,
               backend_processing_time |-> bpt.v,
               response_processing_time |-> spt.v,
               elb_status_code |-> elb.v,
               backend_status_code |-> bsc.v,
               received_bytes |-> rcv.v,
               sent_bytes |-> snt.v,
               request |-> groups[13],
               user_agent |-> groups[14],
               ssl_cipher |-> IF groups[15] # "-" THEN groups[15] ELSE "",
               ssl_protocol |-> IF groups[16] # "-" THEN groups[16] ELSE "" ] ]

\* groups = match.groups()
ParseGroups(groups) ==
    IF Len(groups) < 16 THEN PyNone
    ELSE ParsedDict(groups,
                    LatencyField(groups[6]), LatencyField(groups[7]), LatencyField(groups[8]),
                    StatusField(groups[9]), StatusField(groups[10]),
                    BytesField(groups[11]), BytesField(groups[12]))

\* match = re.match(pattern, line)
ParseMatch(match) == IF match = <<>> THEN PyNone ELSE ParseGroups(match[1])

\* the body of the try block
ParseTry(line) == ParseMatch(MatchFrom(line, 1, 1, <<>>))

\* the except clause: an exception it names becomes None
\* no except clause: what the try block raises leaves parse_log_line
ParseExcept_Reraise(r) == r

ParseExcept(r) == IF r.kind \in CaughtByParse THEN PyNone ELSE r

parse_log_line(line) == ParseExcept(ParseTry(line))

-----------------------------------------------------------------------------
(* The log lines fed to the model.                                         *)

\* a line of the 16-field shape, as the load balancer writes it
LogLine(time, target, rpt, bpt, spt, elb, status, request, ua) ==
    "https " \o time \o " app/shop/1 203.0.113.7:50122 " \o target \o " "
        \o rpt \o " " \o bpt \o " " \o spt \o " " \o elb \o " " \o status
        \o " 120 512 \"" \o request \o "\" \"" \o ua \o "\" - -\n"

Day1Hour10 == "2024-03-01T10:15:00.000000Z"
Day1Hour11 == "2024-03-01T11:40:00.000000Z"
Day2Hour10 == "2024-03-02T10:05:00.000000Z"

UaDesktop == "Mozilla/5.0 (Macintosh)"
UaMobile  == "Mozilla/5.0 (iPhone; CPU iPhone OS 17_0 like Mac OS X)"
UaBot     == "Mozilla/5.0 (compatible; Googlebot/2.1)"

Backend == "10.0.0.5:8080"

\* GET /checkout/payment, backend status 502, combined latency 0.5 s
LinePayment502 ==
    LogLine(Day1Hour10, Backend, "0.125", "0.25", "0.125", "502", "502",
            "GET /checkout/payment HTTP/1.1", UaDesktop)
\* GET /home, backend status 200
LineHome200 ==
    LogLine(Day1Hour10, Backend, "0.001", "0.01", "0.001", "200", "200",
            "GET /home HTTP/1.1", UaDesktop)
\* the backend never received the request: no backend status, no latencies
LineNoBackend ==
    LogLine(Day1Hour11, "-", "-1", "-1", "-1", "503", "-",
            "POST /cart/add HTTP/1.1", UaDesktop)
\* a backend status of 0
LineStatusZero ==
    LogLine(Day1Hour11, Backend, "0.25", "0.5", "0.25", "200", "0",
            "GET /cart/view HTTP/1.1", UaMobile)
\* a client error on a checkout URL, combined latency 0.5 s
LineCart404 ==
    LogLine(Day2Hour10, Backend, "0.125", "0.25", "0.125", "404", "404",
            "GET /cart/checkout/payment HTTP/1.1", UaMobile)
\* a success with one unmeasured latency: 1.0 s and 0.5 s measured
LineBilling200 ==
    LogLine(Day2Hour10, Backend, "-1", "1.0", "0.5", "200", "200",
            "GET /Billing/address?step=2 HTTP/1.1", UaBot)
\* a server error with one unmeasured latency: 2.0 s and 0.5 s measured
LineOrder504 ==
    LogLine(Day2Hour10, Backend, "2.0", "-1", "0.5", "504", "504",
            "POST /order/confirmation HTTP/1.1", UaDesktop)
\* a server error whose three latencies are all zero
LineCart503 ==
    LogLine(Day1Hour11, Backend, "0", "0.0", "0", "503", "503",
            "POST /cart/payment-retry HTTP/1.1", UaBot)
\* a success with no latency measured
LineCheckout200 ==
    LogLine(Day1Hour10, Backend, "-1", "-1", "-1", "200", "200",
            "GET /checkout/ HTTP/1.1", UaDesktop)
\* a request line that holds no URL
LineNoUrl ==
    LogLine(Day1Hour10, Backend, "0.001", "0.25", "0.001", "500", "500",
            "-", UaDesktop)
\* a latency that is not a number
LineBadLatency ==
    LogLine(Day1Hour10, Backend, "0.001", "n/a", "0.001", "500", "500",
            "GET /checkout/payment HTTP/1.1", UaDesktop)
\* a backend status that is not a number
LineBadStatus ==
    LogLine(Day2Hour10, Backend, "0.001", "0.25", "0.001", "500", "5xx",
            "GET /cart/ HTTP/1.1", UaDesktop)
\* a line cut short: the user agent and what follows are missing
LineTruncated ==
    "https " \o Day1Hour10 \o " app/shop/1 203.0.113.7:50122 " \o Backend
        \o " 0.001 0.25 0.001 500 500 120 512 \"GET /cart/ HTTP/1.1\"\n"

Lines ==
    { LinePayment502, LineHome200, LineNoBackend, LineStatusZero, LineCart404,
      LineBilling200, LineOrder504, LineCart503, LineCheckout200, LineNoUrl,
      LineBadLatency, LineBadStatus, LineTruncated }

-----------------------------------------------------------------------------
(* analyze_logs: what the body of the loop does with one line.             *)

\* Python's truth value of log_entry.get('backend_status_code'): None and 0
\* are false, every other integer is true
StatusIsTruthy(status) == status # <<>> /\ status[1] # 0

\* the gate as a test for None: a status of 0 passes
PassesStatusGate_IsNotNone(parsed) ==
    parsed.kind = "dict" /\ parsed.dict.backend_status_code # <<>>

\* log_entry and log_entry.get('backend_status_code')
PassesStatusGate(parsed) ==
    parsed.kind = "dict" /\ StatusIsTruthy(parsed.dict.backend_status_code)

\* status_code >= 500
IsServerError(status_code) == status_code >= 500

\* the classification of a checkout entry: the keys added to log_entry
Classified(log_entry, url) ==
    log_entry @@ [ url |-> url,
                   checkout_stage |-> categorize_checkout_stage(url),
                   pattern_category |-> get_pattern_category(url),
                   is_bot |-> is_bot_traffic(log_entry.user_agent),
                   is_mobile |-> is_mobile_traffic(log_entry.user_agent) ]

\* The effect of one line: raised (an exception leaves parse_log_line),
\* counted (appended to all_requests), checkout (appended to
\* checkout_requests), error (appended to checkout_errors), and the entry
\* appended.  The lists share the entry, so the keys a classification adds
\* are seen through all_requests too.
Outcome(raised, counted, checkout, error, entry) ==
    [raised |-> raised, counted |-> counted, checkout |-> checkout, error |-> error,
     entry |-> entry]

\* a checkout record kept out of all_requests
ProcessUrl_CheckoutOnly(log_entry, url) ==
    IF is_checkout_related(url)
    THEN Outcome(FALSE, FALSE, TRUE, IsServerError(log_entry.backend_status_code[1]),
                 Classified(log_entry, url))
    ELSE Outcome(FALSE, TRUE, FALSE, FALSE, log_entry)

\* if self.is_checkout_related(url): ... if status_code >= 500: ...
ProcessUrl(log_entry, url) ==
    IF is_checkout_related(url)
    THEN Outcome(FALSE, TRUE, TRUE, IsServerError(log_entry.backend_status_code[1]),
                 Classified(log_entry, url))
    ELSE Outcome(FALSE, TRUE, FALSE, FALSE, log_entry)

\* the URL taken without the test of the length: request_parts[1] on a
\* request of one part raises IndexError in the loop body
ProcessRequest_Unguarded(log_entry, request_parts) ==
    IF Len(request_parts) >= 2
    THEN ProcessUrl(log_entry, StripQuotes(request_parts[2]))
    ELSE Outcome(TRUE, FALSE, FALSE, FALSE, <<>>)

\* request_parts = log_entry['request'].split(' '); if len(request_parts) >= 2
ProcessRequest(log_entry, request_parts) ==
    IF Len(request_parts) >= 2
    THEN ProcessUrl(log_entry, StripQuotes(request_parts[2]))
    ELSE Outcome(FALSE, TRUE, FALSE, FALSE, log_entry)

\* the body of the loop after log_entry = self.parse_log_line(line)
ProcessParsed(parsed) ==
    IF parsed.kind \notin {"dict", "None"} THEN Outcome(TRUE, FALSE, FALSE, FALSE, <<>>)
    ELSE IF ~PassesStatusGate(parsed) THEN Outcome(FALSE, FALSE, FALSE, FALSE, <<>>)
    ELSE ProcessRequest(parsed.dict, SplitOn(parsed.dict.request, " "))

ProcessLine(line) == ProcessParsed(parse_log_line(line))

\* ProcessLine, evaluated once for each line of the model
LineOutcome == [line \in Lines |-> ProcessLine(line)]

-----------------------------------------------------------------------------
(* Python containers and arithmetic used by the report sections.           *)

\* s[a:b]: the slice is clipped to the string
PySlice(s, a, b) == SubSeq(s, a + 1, IF b < Len(s) THEN b ELSE Len(s))

\* a dict, defaultdict or Counter: the keys in insertion order and the values
EmptyDict == [order |-> <<>>, at |-> <<>>]

DictHas(d, k) == \E i \in 1..Len(d.order) : d.order[i] = k

DictSet(d, k, v) ==
    IF DictHas(d, k) THEN [d EXCEPT !.at[k] = v]
    ELSE [order |-> Append(d.order, k), at |-> d.at @@ (k :> v)]

\* the count as an assignment of 1: counter[k] = 1
CounterAdd_Assign(d, k) == DictSet(d, k, 1)

\* counter[k] += 1
CounterAdd(d, k) == DictSet(d, k, IF DictHas(d, k) THEN d.at[k] + 1 ELSE 1)

RECURSIVE CounterOf(_, _)
\* for k in keys: counter[k] += 1
CounterOf(keys, d) ==
    IF keys = <<>> THEN d ELSE CounterOf(Tail(keys), CounterAdd(d, Head(keys)))

\* the bump as an assignment of 1: stats[k][field] = 1
StatsBump_Assign(d, k, field, fresh) ==
    DictSet(d, k, [(IF DictHas(d, k) THEN d.at[k] ELSE fresh) EXCEPT ![field] = 1])

\* stats[k][field] += 1, stats a defaultdict whose missing values are fresh
StatsBump(d, k, field, fresh) ==
    DictSet(d, k, [(IF DictHas(d, k) THEN d.at[k] ELSE fresh) EXCEPT ![field] = @ + 1])

RECURSIVE StatsBumpAll(_, _, _, _)
\* for k in keys: stats[k][field] += 1
StatsBumpAll(d, keys, field, fresh) ==
    IF keys = <<>> THEN d
    ELSE StatsBumpAll(StatsBump(d, Head(keys), field, fresh), Tail(keys), field, fresh)

\* dict.items()
DictItems(d) == [i \in 1..Len(d.order) |-> <<d.order[i], d.at[d.order[i]]>>]

\* a / b: raised stands for ZeroDivisionError, the quotient is num / den
PyDiv(a, b) ==
    IF b = 0 THEN [raised |-> TRUE, num |-> 0, den |-> 1]
    ELSE [raised |-> FALSE, num |-> a, den |-> b]

\* (a / b) * 100  and  a / b * 100
Percent(a, b) == [PyDiv(a, b) EXCEPT !.num = @ * 100]

\* the literal 0 of an else branch
ZeroRate == [raised |-> FALSE, num |-> 0, den |-> 1]

\* q > n / d, for a quotient q and a positive d
RateAbove(q, n, d) == q.num * d > n * q.den

\* the characters of the ASCII table from the space on, in code point order
\* (without the grave accent, which no text of the model holds)
AsciiChars ==
    " !\"#$%&'()*+,-./0123456789:;<=>?@ABCDEFGHIJKLMNOPQRSTUVWXYZ[\\]^_abcdefghijklmnopqrstuvwxyz{|}~"

CodeOf(c) ==
    IF \E i \in 1..Len(AsciiChars) : Ch(AsciiChars, i) = c
    THEN CHOOSE i \in 1..Len(AsciiChars) : Ch(AsciiChars, i) = c
    ELSE 0

RECURSIVE StrLess(_, _)
\* a < b on strings
StrLess(a, b) ==
    IF b = "" THEN FALSE
    ELSE IF a = "" THEN TRUE
    ELSE IF Head(a) # Head(b) THEN CodeOf(Head(a)) < CodeOf(Head(b))
    ELSE StrLess(Tail(a), Tail(b))

RECURSIVE SortedStrings(_)
\* sorted(keys) for string keys
SortedStrings(S) ==
    IF S = {} THEN <<>>
    ELSE LET least == CHOOSE x \in S : \A y \in S : x = y \/ StrLess(x, y)
         IN  <<least>> \o SortedStrings(S \ {least})

RECURSIVE SortedInts(_)
\* sorted(keys) for integer keys
SortedInts(S) ==
    IF S = {} THEN <<>>
    ELSE LET least == CHOOSE x \in S : \A y \in S : x <= y
         IN  <<least>> \o SortedInts(S \ {least})

RECURSIVE SortByCountDesc(_, _)
\* sorted(pairs, key=count, reverse=True), pairs of <<item, count>>: a stable
\* sort, so pairs of equal count keep their order.  done is the sorted prefix.
SortByCountDesc(pairs, done) ==
    IF pairs = <<>> THEN done
    ELSE LET x == Head(pairs)
             n == Cardinality({i \in 1..Len(done) : done[i][2] >= x[2]})
         IN  SortByCountDesc(Tail(pairs),
                             SubSeq(done, 1, n) \o <<x>> \o SubSeq(done, n + 1, Len(done)))

\* seq[:n]
FirstN(seq, n) == SubSeq(seq, 1, IF n < Len(seq) THEN n ELSE Len(seq))

\* Counter.most_common(n)
MostCommon(counter, n) == FirstN(SortByCountDesc(DictItems(counter), <<>>), n)

RECURSIVE SumSeq(_)
SumSeq(seq) == IF seq = <<>> THEN 0 ELSE Head(seq) + SumSeq(Tail(seq))

RECURSIVE MaxSeq(_)
\* max(seq), seq not empty
MaxSeq(seq) ==
    IF Len(seq) = 1 THEN seq[1]
    ELSE LET m == MaxSeq(Tail(seq)) IN IF Head(seq) >= m THEN Head(seq) ELSE m

\* [f(x) for x in seq]
MapSeq(seq, F(_)) == [i \in 1..Len(seq) |-> F(seq[i])]

-----------------------------------------------------------------------------
(* The report sections.  Each is a function of the three lists that        *)
(* analyze_logs stores; what a section prints is kept as a record.  A      *)
(* quotient whose raised is TRUE is a ZeroDivisionError of the section.    *)

\* error['url'].split('?')[0]
CleanUrl(r) == BeforeFirst(r.url, "?")

DateOf(r) == PySlice(r.timestamp, 0, 10)

HourOf(r) == PySlice(r.timestamp, 11, 13)

StatusOf(r) == r.backend_status_code[1]

\* request_processing_time + backend_processing_time + response_processing_time
TotalTime(r) ==
    r.request_processing_time + r.backend_processing_time + r.response_processing_time

analyze_overall_summary(all, checkout, errors) ==
    LET total_requests          == Len(all)
        total_checkout_requests == Len(checkout)
        total_checkout_errors   == Len(errors)
    IN  [ total_requests |-> total_requests,
          total_checkout_requests |-> total_checkout_requests,
          total_checkout_errors |-> total_checkout_errors,
          checkout_error_rate |->
              IF total_checkout_requests > 0
              THEN Percent(total_checkout_errors, total_checkout_requests)
              ELSE ZeroRate,
          checkout_traffic_pct |->
              IF total_checkout_requests > 0
              THEN (IF total_requests > 0
                    THEN Percent(total_checkout_requests, total_requests)
                    ELSE ZeroRate)
              ELSE ZeroRate,
          top_urls |-> MostCommon(CounterOf(MapSeq(errors, CleanUrl), EmptyDict), 10) ]

summary_raised(r) == r.checkout_error_rate.raised \/ r.checkout_traffic_pct.raised

\* the value a missing key of funnel_stats gets
FreshFunnelStats == [requests |-> 0, errors |-> 0, urls |-> EmptyDict]

RECURSIVE FunnelErrors(_, _)
\* for error in checkout_errors: errors += 1 and urls[clean_url] += 1
FunnelErrors(d, errors) ==
    IF errors = <<>> THEN d
    ELSE LET stage == Head(errors).pattern_category
             old   == IF DictHas(d, stage) THEN d.at[stage] ELSE FreshFunnelStats
         IN  FunnelErrors(
                 DictSet(d, stage, [old EXCEPT !.errors = @ + 1,
                                               !.urls = CounterAdd(@, CleanUrl(Head(errors)))]),
                 Tail(errors))

PatternCategoryOf(r) == r.pattern_category

\* the status of a stage row of analyze_pattern_breakdown
PatternStatus(error_rate) ==
    IF RateAbove(error_rate, 10, 10) THEN "CRITICAL"
    ELSE IF RateAbove(error_rate, 6, 10) THEN "HIGH"
    ELSE IF RateAbove(error_rate, 3, 10) THEN "MEDIUM"
    ELSE "GOOD"

analyze_pattern_breakdown(all, checkout, errors) ==
    LET requests_counted ==
            StatsBumpAll(EmptyDict, MapSeq(checkout, PatternCategoryOf), "requests",
                         FreshFunnelStats)
        funnel_stats  == FunnelErrors(requests_counted, errors)
        items         == DictItems(funnel_stats)
        sorted_stages ==
            SortByCountDesc([i \in 1..Len(items) |-> <<items[i][1], items[i][2].errors>>], <<>>)
        \* the stages with no request are skipped
        shown == SelectSeq(sorted_stages, LAMBDA p : funnel_stats.at[p[1]].requests # 0)
    IN  [ funnel_stats |-> funnel_stats,
          rows |->
            [ i \in 1..Len(shown) |->
                LET stats == funnel_stats.at[shown[i][1]]
                    error_rate == Percent(stats.errors, stats.requests)
                IN  [ stage |-> shown[i][1],
                      requests |-> stats.requests,
                      errors |-> stats.errors,
                      error_rate |-> error_rate,
                      status |-> PatternStatus(error_rate),
                      top_urls |->
                          FirstN(SortByCountDesc(DictItems(stats.urls), <<>>), 3) ] ] ]

pattern_raised(r) == \E i \in 1..Len(r.rows) : r.rows[i].error_rate.raised

(* Python floats (IEEE 754 binary64) where the code compares them.  A      *)
(* natural number of any size is a sequence of limbs, least significant    *)
(* first, each below LimbBase; a non-negative float is m * 2^e for such a  *)
(* number m and an integer e.  Every operation computes the exact result   *)
(* and rounds it to 53 binary digits, to nearest, ties to even.            *)

\* the binary digits of the significand of a float
MantissaBits == 53

\* the binary digits of a limb
LimbBits == 15

LimbBase == 2 ^ LimbBits

RECURSIVE BigNorm(_)
\* the same number without leading zero limbs
BigNorm(x) ==
    IF x = <<>> THEN x
    ELSE IF x[Len(x)] = 0 THEN BigNorm(SubSeq(x, 1, Len(x) - 1))
    ELSE x

RECURSIVE BigOfNat(_)
\* the limbs of an integer n >= 0
BigOfNat(n) == IF n = 0 THEN <<>> ELSE <<n % LimbBase>> \o BigOfNat(n \div LimbBase)

LimbAt(x, i) == IF i <= Len(x) THEN x[i] ELSE 0

RECURSIVE BigAddFrom(_, _, _, _)
\* x + y from limb i on, with the carry into limb i
BigAddFrom(x, y, i, carry) ==
    IF i > Len(x) /\ i > Len(y)
    THEN (IF carry = 0 THEN <<>> ELSE <<carry>>)
    ELSE <<(LimbAt(x, i) + LimbAt(y, i) + carry) % LimbBase>>
             \o BigAddFrom(x, y, i + 1, (LimbAt(x, i) + LimbAt(y, i) + carry) \div LimbBase)

BigAdd(x, y) == BigAddFrom(x, y, 1, 0)

RECURSIVE BigSubFrom(_, _, _, _)
\* x - y (x >= y) from limb i on, with the borrow out of limb i
BigSubFrom(x, y, i, borrow) ==
    IF i > Len(x) THEN <<>>
    ELSE <<(x[i] - LimbAt(y, i) - borrow + LimbBase) % LimbBase>>
             \o BigSubFrom(x, y, i + 1, IF x[i] - LimbAt(y, i) - borrow < 0 THEN 1 ELSE 0)

BigSub(x, y) == BigNorm(BigSubFrom(x, y, 1, 0))

\* x < y: the highest limb where they differ decides
BigLess(x, y) ==
    \/ Len(x) < Len(y)
    \/ /\ Len(x) = Len(y)
       /\ \E i \in 1..Len(x) : x[i] < y[i] /\ \A j \in (i + 1)..Len(x) : x[j] = y[j]

RECURSIVE BigTimesFrom(_, _, _, _)
\* x * n for 0 <= n < LimbBase, from limb i on
BigTimesFrom(x, n, i, carry) ==
    IF i > Len(x) THEN BigOfNat(carry)
    ELSE <<(x[i] * n + carry) % LimbBase>>
             \o BigTimesFrom(x, n, i + 1, (x[i] * n + carry) \div LimbBase)

BigTimes(x, n) == BigNorm(BigTimesFrom(x, n, 1, 0))

\* x * 2^k
BigShiftLeft(x, k) ==
    IF x = <<>> THEN x
    ELSE [i \in 1..(k \div LimbBits) |-> 0] \o BigTimes(x, 2 ^ (k % LimbBits))

\* the limbs of x from limb i on, divided by 2^s for s < LimbBits
LimbsShiftedRight(x, s) ==
    [i \in 1..Len(x) |->
        (x[i] \div (2 ^ s)) + (LimbAt(x, i + 1) % (2 ^ s)) * (2 ^ (LimbBits - s))]

\* x divided by 2^k, the remainder dropped
BigShiftRight(x, k) ==
    BigNorm(LimbsShiftedRight(SubSeq(x, (k \div LimbBits) + 1, Len(x)), k % LimbBits))

\* the binary digit of x of weight 2^k
BigBit(x, k) == (LimbAt(x, (k \div LimbBits) + 1) \div (2 ^ (k % LimbBits))) % 2

\* the k lowest binary digits of x are all 0
BigLowZero(x, k) ==
    /\ \A i \in 1..(k \div LimbBits) : LimbAt(x, i) = 0
    /\ LimbAt(x, (k \div LimbBits) + 1) % (2 ^ (k % LimbBits)) = 0

\* the number of binary digits of x, 0 for 0
BigBitLen(x) ==
    IF x = <<>> THEN 0
    ELSE LimbBits * (Len(x) - 1)
           + (CHOOSE n \in 1..LimbBits : 2 ^ (n - 1) <= x[Len(x)] /\ x[Len(x)] < 2 ^ n)

FloatZero == [m |-> <<>>, e |-> 0]

\* 0.5
FloatHalf == [m |-> <<1>>, e |-> -1]

\* m with its k lowest digits rounded away: to nearest, ties to even;
\* inexact tells that non-zero digits below m were dropped already
RoundedAway(m, k, inexact) ==
    IF BigBit(m, k - 1) = 1 /\ (inexact \/ ~BigLowZero(m, k - 1) \/ BigBit(m, k) = 1)
    THEN BigAdd(BigShiftRight(m, k), <<1>>)
    ELSE BigShiftRight(m, k)

\* the float nearest to m * 2^e
RoundFloat(m, e, inexact) ==
    IF BigBitLen(m) <= MantissaBits THEN [m |-> m, e |-> e]
    ELSE [ m |-> RoundedAway(m, BigBitLen(m) - MantissaBits, inexact),
           e |-> e + BigBitLen(m) - MantissaBits ]

MinOf(a, b) == IF a <= b THEN a ELSE b

\* the significand of x at exponent e <= x.e
AlignedTo(x, e) == BigShiftLeft(x.m, x.e - e)

\* x < y
FloatLess(x, y) ==
    BigLess(AlignedTo(x, MinOf(x.e, y.e)), AlignedTo(y, MinOf(x.e, y.e)))

\* x + y for floats x, y >= 0
FloatAdd(x, y) ==
    RoundFloat(BigAdd(AlignedTo(x, MinOf(x.e, y.e)), AlignedTo(y, MinOf(x.e, y.e))),
               MinOf(x.e, y.e), FALSE)

\* x - y for floats x >= y >= 0
FloatMinus(x, y) ==
    RoundFloat(BigSub(AlignedTo(x, MinOf(x.e, y.e)), AlignedTo(y, MinOf(x.e, y.e))),
               MinOf(x.e, y.e), FALSE)

\* x - y for floats x, y >= 0: the sign and the magnitude of the result
FloatSub(x, y) ==
    IF FloatLess(x, y) THEN [neg |-> TRUE, mag |-> FloatMinus(y, x)]
    ELSE [neg |-> FALSE, mag |-> FloatMinus(x, y)]

\* x * n for a float x >= 0 and an integer 0 <= n < LimbBase
FloatTimesNat(x, n) == RoundFloat(BigTimes(x.m, n), x.e, FALSE)

\* the limbs of the fraction r / b computed by the division
FractionLimbs == 6

RECURSIVE FractionFrom(_, _, _, _)
\* long division of r by b (r < b < 2 * LimbBase): n limbs of the quotient,
\* most significant first, and the remainder
FractionFrom(r, b, n, acc) ==
    IF n = 0 THEN [limbs |-> acc, rem |-> r]
    ELSE FractionFrom((r * LimbBase) % b, b, n - 1, <<(r * LimbBase) \div b>> \o acc)

QuotientOf(whole, frac) ==
    RoundFloat(BigNorm(frac.limbs \o whole), 0 - LimbBits * FractionLimbs, frac.rem # 0)

\* a / b for integers a >= 0 and b > 0: the float nearest to the quotient
FloatDiv(a, b) ==
    IF a = 0 THEN FloatZero
    ELSE QuotientOf(BigOfNat(a \div b), FractionFrom(a % b, b, FractionLimbs, <<>>))

\* the value a missing key of daily_stats and hourly_stats gets
FreshBucket == [total |-> 0, checkout |-> 0, errors |-> 0]

\* the three loops that fill daily_stats (by date) and hourly_stats (by hour)
BucketStats(keys_all, keys_checkout, keys_errors) ==
    StatsBumpAll(
        StatsBumpAll(
            StatsBumpAll(EmptyDict, keys_all, "total", FreshBucket),
            keys_checkout, "checkout", FreshBucket),
        keys_errors, "errors", FreshBucket)

\* the division without its guard
BucketErrorRate_Unguarded(stats) == Percent(stats.errors, stats.checkout)

\* (errors / checkout * 100) if checkout > 0 else 0
BucketErrorRate(stats) ==
    IF stats.checkout > 0 THEN Percent(stats.errors, stats.checkout) ELSE ZeroRate

\* the error rate of a date as the float that line 409 computes: 0 when the
\* date has no checkout request
FloatErrorRate(stats) ==
    IF stats.checkout > 0 THEN FloatTimesNat(FloatDiv(stats.errors, stats.checkout), 100)
    ELSE FloatZero

\* error_rate < prev_error_rate - 0.5, the difference given by sign and size
BelowDifference(error_rate, difference) ==
    ~difference.neg /\ FloatLess(error_rate, difference.mag)

\* the trend of a date whose rate is error_rate, after a date whose rate is prev
TrendLabel(error_rate, prev) ==
    IF FloatLess(FloatAdd(prev, FloatHalf), error_rate) THEN "WORSE"
    ELSE IF BelowDifference(error_rate, FloatSub(prev, FloatHalf)) THEN "BETTER"
    ELSE "STABLE"

\* one row of the table of dates
DailyRow(daily_stats, sorted_dates, i) ==
    [ date |-> sorted_dates[i],
      total |-> daily_stats.at[sorted_dates[i]].total,
      checkout |-> daily_stats.at[sorted_dates[i]].checkout,
      errors |-> daily_stats.at[sorted_dates[i]].errors,
      error_rate |-> BucketErrorRate(daily_stats.at[sorted_dates[i]]),
      \* prev_error_rate is None on the first date
      trend |-> IF i = 1 THEN ""
                ELSE TrendLabel(FloatErrorRate(daily_stats.at[sorted_dates[i]]),
                                FloatErrorRate(daily_stats.at[sorted_dates[i - 1]])) ]

RowsOfDates(daily_stats, sorted_dates) ==
    [i \in 1..Len(sorted_dates) |-> DailyRow(daily_stats, sorted_dates, i)]

\* the loop over sorted(daily_stats.keys())
DailyRows(daily_stats) ==
    RowsOfDates(daily_stats,
                SortedStrings({daily_stats.order[i] : i \in 1..Len(daily_stats.order)}))

DailyStatsOf(all, checkout, errors) ==
    BucketStats(MapSeq(all, DateOf), MapSeq(checkout, DateOf), MapSeq(errors, DateOf))

analyze_daily_trends(all, checkout, errors) ==
    [ daily_stats |-> DailyStatsOf(all, checkout, errors),
      rows |-> DailyRows(DailyStatsOf(all, checkout, errors)) ]

daily_raised(r) == \E i \in 1..Len(r.rows) : r.rows[i].error_rate.raised

\* the status of an hour row of analyze_hourly_patterns
HourlyStatus(error_rate) ==
    IF RateAbove(error_rate, 5, 1) THEN "HIGH"
    ELSE IF RateAbove(error_rate, 2, 1) THEN "MEDIUM"
    ELSE "LOW"

\* stats[field] / total_days if total_days > 0 else 0
HourlyAverage(count, total_days) ==
    IF total_days > 0 THEN PyDiv(count, total_days) ELSE ZeroRate

analyze_hourly_patterns(all, checkout, errors) ==
    LET hourly_stats ==
            BucketStats(MapSeq(all, HourOf), MapSeq(checkout, HourOf), MapSeq(errors, HourOf))
        total_days   == Cardinality({DateOf(all[i]) : i \in 1..Len(all)})
        sorted_hours == SortedStrings({hourly_stats.order[i] : i \in 1..Len(hourly_stats.order)})
    IN  [ hourly_stats |-> hourly_stats,
          total_days |-> total_days,
          rows |->
            [ i \in 1..Len(sorted_hours) |->
                LET stats == hourly_stats.at[sorted_hours[i]]
                IN  [ hour |-> sorted_hours[i],
                      avg_total |-> HourlyAverage(stats.total, total_days),
                      avg_checkout |-> HourlyAverage(stats.checkout, total_days),
                      avg_errors |-> HourlyAverage(stats.errors, total_days),
                      error_rate |-> BucketErrorRate(stats),
                      status |-> HourlyStatus(BucketErrorRate(stats)) ] ] ]

hourly_raised(r) ==
    \E i \in 1..Len(r.rows) :
        \/ r.rows[i].error_rate.raised
        \/ r.rows[i].avg_total.raised
        \/ r.rows[i].avg_checkout.raised
        \/ r.rows[i].avg_errors.raised


\* the error rate of one traffic class of analyze_user_agents: <<>> when the
\* class has no request (the section then prints the count alone and
\* computes no rate)
ClassErrorRate(class_requests, class_errors) ==
    IF class_requests > 0 THEN <<Percent(class_errors, class_requests)>> ELSE <<>>

\* the share of all errors of the bot and human classes, computed with the
\* error rate
ClassErrorShare(class_requests, class_errors, total_errors) ==
    IF class_requests > 0
    THEN <<IF total_errors > 0 THEN Percent(class_errors, total_errors) ELSE ZeroRate>>
    ELSE <<>>

\* error['user_agent'][:80] + "..." if len(error['user_agent']) > 80 else ...
ShortUserAgent(r) ==
    IF Len(r.user_agent) > 80 THEN PySlice(r.user_agent, 0, 80) \o "..." ELSE r.user_agent

CountIf(seq, Test(_)) == Len(SelectSeq(seq, Test))

analyze_user_agents(all, checkout, errors) ==
    LET bot_errors       == CountIf(errors, LAMBDA e : e.is_bot)
        human_errors     == CountIf(errors, LAMBDA e : ~e.is_bot)
        total_errors     == Len(errors)
        bot_requests     == CountIf(checkout, LAMBDA r : r.is_bot)
        human_requests   == CountIf(checkout, LAMBDA r : ~r.is_bot)
        mobile_errors    == CountIf(errors, LAMBDA e : e.is_mobile)
        desktop_errors   == CountIf(errors, LAMBDA e : ~e.is_mobile)
        mobile_requests  == CountIf(checkout, LAMBDA r : r.is_mobile)
        desktop_requests == CountIf(checkout, LAMBDA r : ~r.is_mobile)
    IN  [ bot_errors |-> bot_errors, human_errors |-> human_errors,
          bot_requests |-> bot_requests, human_requests |-> human_requests,
          mobile_errors |-> mobile_errors, desktop_errors |-> desktop_errors,
          mobile_requests |-> mobile_requests, desktop_requests |-> desktop_requests,
          bot_error_rate |-> ClassErrorRate(bot_requests, bot_errors),
          bot_error_pct |-> ClassErrorShare(bot_requests, bot_errors, total_errors),
          human_error_rate |-> ClassErrorRate(human_requests, human_errors),
          human_error_pct |-> ClassErrorShare(human_requests, human_errors, total_errors),
          mobile_error_rate |-> ClassErrorRate(mobile_requests, mobile_errors),
          desktop_error_rate |-> ClassErrorRate(desktop_requests, desktop_errors),
          bot_user_agents |-> {errors[i].user_agent : i \in {j \in 1..Len(errors) : errors[j].is_bot}},
          top_user_agents |-> MostCommon(CounterOf(MapSeq(errors, ShortUserAgent), EmptyDict), 10) ]

user_agents_raised(r) ==
    \E q \in {r.bot_error_rate, r.bot_error_pct, r.human_error_rate, r.human_error_pct,
              r.mobile_error_rate, r.desktop_error_rate} :
        q # <<>> /\ q[1].raised

RECURSIVE StageErrors(_, _)
\* for error in checkout_errors: stage_errors[stage][code] += 1
StageErrors(d, errors) ==
    IF errors = <<>> THEN d
    ELSE LET stage == Head(errors).checkout_stage
             old   == IF DictHas(d, stage) THEN d.at[stage] ELSE EmptyDict
         IN  StageErrors(DictSet(d, stage, CounterAdd(old, StatusOf(Head(errors)))),
                         Tail(errors))

analyze_error_types(all, checkout, errors) ==
    LET status_code_errors == CounterOf(MapSeq(errors, StatusOf), EmptyDict)
    IN  [ status_code_errors |-> status_code_errors,
          codes |-> SortedInts({status_code_errors.order[i] :
                                    i \in 1..Len(status_code_errors.order)}),
          stage_errors |-> IF errors # <<>> THEN StageErrors(EmptyDict, errors) ELSE EmptyDict ]

\* the response times of analyze_performance_correlation that are kept
ValidTimes(requests) == SelectSeq(MapSeq(requests, TotalTime), LAMBDA t : t > 0)

\* success as every status below 500
IsSuccessful_Below500(r) == StatusOf(r) < 500

\* r['backend_status_code'] < 400
IsSuccessful(r) == StatusOf(r) < 400

analyze_performance_correlation(all, checkout, errors) ==
    IF checkout = <<>> THEN [ran |-> FALSE]
    ELSE
    LET successful_requests == SelectSeq(checkout, IsSuccessful)
        error_requests      == errors
        success_times == IF successful_requests # <<>> THEN ValidTimes(successful_requests) ELSE <<>>
        error_times   == IF error_requests # <<>> THEN ValidTimes(error_requests) ELSE <<>>
        slow_requests == SelectSeq(checkout, LAMBDA r : TotalTime(r) > 10000)
        slow_errors   == SelectSeq(slow_requests, LAMBDA r : StatusOf(r) >= 400)
    IN  [ ran |-> TRUE,
          successful_requests |-> Len(successful_requests),
          success_times |-> success_times,
          error_times |-> error_times,
          avg_success_time |-> IF success_times # <<>>
                               THEN <<PyDiv(SumSeq(success_times), Len(success_times))>> ELSE <<>>,
          max_success_time |-> IF success_times # <<>> THEN <<MaxSeq(success_times)>> ELSE <<>>,
          avg_error_time |-> IF error_times # <<>>
                             THEN <<PyDiv(SumSeq(error_times), Len(error_times))>> ELSE <<>>,
          max_error_time |-> IF error_times # <<>> THEN <<MaxSeq(error_times)>> ELSE <<>>,
          slow_requests |-> Len(slow_requests),
          slow_error_rate |-> IF slow_requests # <<>> /\ slow_errors # <<>>
                              THEN <<Percent(Len(slow_errors), Len(slow_requests))>> ELSE <<>> ]

performance_raised(r) ==
    /\ r.ran
    /\ \E q \in {r.avg_success_time, r.avg_error_time, r.slow_error_rate} :
           q # <<>> /\ q[1].raised

-----------------------------------------------------------------------------
(* analyze_checkout_funnel: the per-funnel-stage table.  No caller: run()  *)
(* and analyze_logs() never reach it.                                      *)

CheckoutStageOf(r) == r.checkout_stage

\* the value a missing key of its funnel_stats gets
FreshStageStats == [requests |-> 0, errors |-> 0]

\* the status of a row of analyze_checkout_funnel
FunnelStatus(error_rate) ==
    IF RateAbove(error_rate, 5, 1) THEN "CRITICAL"
    ELSE IF RateAbove(error_rate, 2, 1) THEN "HIGH"
    ELSE IF RateAbove(error_rate, 1, 1) THEN "MEDIUM"
    ELSE "GOOD"

analyze_checkout_funnel(all, checkout, errors) ==
    LET funnel_stats ==
            StatsBumpAll(
                StatsBumpAll(EmptyDict, MapSeq(checkout, CheckoutStageOf), "requests",
                             FreshStageStats),
                MapSeq(errors, CheckoutStageOf), "errors", FreshStageStats)
        items == DictItems(funnel_stats)
        sorted_stages ==
            SortByCountDesc([i \in 1..Len(items) |-> <<items[i][1], items[i][2].errors>>], <<>>)
    IN  [ funnel_stats |-> funnel_stats,
          rows |->
            [ i \in 1..Len(sorted_stages) |->
                LET stats == funnel_stats.at[sorted_stages[i][1]]
                    error_rate == IF stats.requests > 0
                                  THEN Percent(stats.errors, stats.requests) ELSE ZeroRate
                IN  [ stage |-> sorted_stages[i][1],
                      requests |-> stats.requests,
                      errors |-> stats.errors,
                      error_rate |-> error_rate,
                      status |-> FunnelStatus(error_rate) ] ] ]

-----------------------------------------------------------------------------
(* run() and analyze_logs() as a state machine.                            *)

\* the report before any section has run: a section that has run holds
\* <<its result>>
NoReport ==
    [ overall_summary |-> <<>>, pattern_breakdown |-> <<>>, daily_trends |-> <<>>,
      hourly_patterns |-> <<>>, user_agents |-> <<>>, error_types |-> <<>>,
      performance_correlation |-> <<>> ]

Init ==
    /\ pc = "run"
    /\ n_files = 0
    /\ processed_files = 0
    /\ input = <<>>
    /\ total_lines = 0
    /\ parsed_lines = 0
    /\ all_requests = <<>>
    /\ checkout_requests = <<>>
    /\ checkout_errors = <<>>
    /\ report = NoReport
    /\ cl_pc = "off"
    /\ cl_url = ""
    /\ cl_out = <<>>
    /\ tr_pc = "off"
    /\ tr_stats = EmptyDict
    /\ tr_rows = <<>>
    /\ pa_pc = "off"
    /\ pa_client = ""
    /\ pa_target = ""
    /\ pa_out = <<>>

\* validate_log_directory: the directory holds n log files; with none (or
\* with no directory) it raises FileNotFoundError, which run() turns into
\* sys.exit(1)
Validate ==
    /\ pc = "run"
    /\ \E n \in 0..MaxFiles :
          /\ n_files' = n
          /\ pc' = IF n = 0 THEN "exit1" ELSE "next_file"
    /\ UNCHANGED <<processed_files, input, total_lines, parsed_lines, all_requests,
                   checkout_requests, checkout_errors, report>>
    /\ UNCHANGED harness_vars

\* for log_file in self.log_files: the next file is opened
OpenFile ==
    /\ pc = "next_file"
    /\ processed_files < n_files
    /\ processed_files' = processed_files + 1
    /\ pc' = "reading"
    /\ UNCHANGED <<n_files, input, total_lines, parsed_lines, all_requests,
                   checkout_requests, checkout_errors, report>>
    /\ UNCHANGED harness_vars

\* for line_num, line in enumerate(f, 1): the body of the loop on one line.
\* An exception that leaves the body ends analyze_logs and reaches the
\* except clause of run(), which exits with status 1.
ReadLineFrom(lines) ==
    /\ pc = "reading"
    /\ Len(input) < MaxLines
    /\ \E line \in lines :
          LET o == LineOutcome[line]
          IN  /\ input' = Append(input, <<processed_files, line>>)
              /\ total_lines' = total_lines + 1
              /\ pc' = IF o.raised THEN "exit1" ELSE "reading"
              /\ parsed_lines' = IF o.counted THEN parsed_lines + 1 ELSE parsed_lines
              /\ all_requests' =
                    IF o.counted THEN Append(all_requests, o.entry) ELSE all_requests
              /\ checkout_requests' =
                    IF o.checkout THEN Append(checkout_requests, o.entry) ELSE checkout_requests
              /\ checkout_errors' =
                    IF o.error THEN Append(checkout_errors, o.entry) ELSE checkout_errors
    /\ UNCHANGED <<n_files, processed_files, report>>
    /\ UNCHANGED harness_vars

ReadLine == ReadLineFrom(Lines)

\* the file has no further line
EndOfFile ==
    /\ pc = "reading"
    /\ pc' = "next_file"
    /\ UNCHANGED <<n_files, processed_files, input, total_lines, parsed_lines,
                   all_requests, checkout_requests, checkout_errors, report>>
    /\ UNCHANGED harness_vars

\* the sections begun as soon as a file is done, whether or not it is the last
FinishPass_BeforeLastFile ==
    /\ pc = "next_file"
    /\ pc' = "show_data_range"
    /\ UNCHANGED <<n_files, processed_files, input, total_lines, parsed_lines,
                   all_requests, checkout_requests, checkout_errors, report>>
    /\ UNCHANGED harness_vars

\* the last file is done: the lists are stored and the sections begin
FinishPass ==
    /\ pc = "next_file"
    /\ processed_files = n_files
    /\ pc' = "show_data_range"
    /\ UNCHANGED <<n_files, processed_files, input, total_lines, parsed_lines,
                   all_requests, checkout_requests, checkout_errors, report>>
    /\ UNCHANGED harness_vars

\* show_data_range reads the file names only and keeps nothing
ShowDataRange ==
    /\ pc = "show_data_range"
    /\ pc' = "overall_summary"
    /\ UNCHANGED <<n_files, processed_files, input, total_lines, parsed_lines,
                   all_requests, checkout_requests, checkout_errors, report>>
    /\ UNCHANGED harness_vars

\* a report section: its result is kept under its name; a ZeroDivisionError
\* in it reaches the except clause of run(), which exits with status 1
Section(name, result, raised, next) ==
    /\ pc = name
    /\ report' = IF raised THEN report ELSE [report EXCEPT ![name] = <<result>>]
    /\ pc' = IF raised THEN "exit1" ELSE next
    /\ UNCHANGED <<n_files, processed_files, input, total_lines, parsed_lines,
                   all_requests, checkout_requests, checkout_errors>>
    /\ UNCHANGED harness_vars

OverallSummary ==
    LET r == analyze_overall_summary(all_requests, checkout_requests, checkout_errors)
    IN  Section("overall_summary", r, summary_raised(r), "pattern_breakdown")

PatternBreakdown ==
    LET r == analyze_pattern_breakdown(all_requests, checkout_requests, checkout_errors)
    IN  Section("pattern_breakdown", r, pattern_raised(r), "daily_trends")

DailyTrends ==
    LET r == analyze_daily_trends(all_requests, checkout_requests, checkout_errors)
    IN  Section("daily_trends", r, daily_raised(r), "hourly_patterns")

HourlyPatterns ==
    LET r == analyze_hourly_patterns(all_requests, checkout_requests, checkout_errors)
    IN  Section("hourly_patterns", r, hourly_raised(r), "user_agents")

UserAgents ==
    LET r == analyze_user_agents(all_requests, checkout_requests, checkout_errors)
    IN  Section("user_agents", r, user_agents_raised(r), "error_types")

ErrorTypes ==
    LET r == analyze_error_types(all_requests, checkout_requests, checkout_errors)
    IN  Section("error_types", r, FALSE, "performance_correlation")

\* the last section; run() then logs that the analysis is complete
PerformanceCorrelation ==
    LET r == analyze_performance_correlation(all_requests, checkout_requests, checkout_errors)
    IN  Section("performance_correlation", r, performance_raised(r), "done")

Next ==
    \/ Validate
    \/ OpenFile
    \/ ReadLine
    \/ EndOfFile
    \/ FinishPass
    \/ ShowDataRange
    \/ OverallSummary
    \/ PatternBreakdown
    \/ DailyTrends
    \/ HourlyPatterns
    \/ UserAgents
    \/ ErrorTypes
    \/ PerformanceCorrelation

Spec == Init /\ [][Next]_vars

\* the values of pc
ProgramPoints ==
    { "run", "next_file", "reading", "show_data_range", "overall_summary",
      "pattern_breakdown", "daily_trends", "hourly_patterns", "user_agents", "error_types",
      "performance_correlation", "done", "exit1" }

\* the steps of run() and analyze_logs() outside the loop body and the
\* sections
Sequencing == Validate \/ OpenFile \/ EndOfFile \/ FinishPass \/ ShowDataRange

\* a section returns or raises: Section(name, ...) is possible whenever pc is
\* the name of a section, and each of its steps leaves that program point
SectionEnds ==
    /\ pc \in DOMAIN NoReport
    /\ \E p \in ProgramPoints \ {pc} : pc' = p

\* The program is sequential and waits for nothing: a statement that can run
\* does run.  A log file is finite, so the loop over its lines reaches the
\* end of the file; a section, once called, returns or raises.
\* The runs that must complete: every file is of lines of these kinds, two
\* unparseable (truncated, a latency that is no number), a record without
\* backend status, two records that are not checkout-related (one of them
\* with a request that holds no URL), a checkout record and a checkout error.
LiveLines ==
    {LineTruncated, LineBadLatency, LineNoBackend, LineHome200, LineNoUrl,
     LineCheckout200, LinePayment502}

ReadLiveLine == ReadLineFrom(LiveLines)

NextLive ==
    \/ Validate
    \/ OpenFile
    \/ ReadLiveLine
    \/ EndOfFile
    \/ FinishPass
    \/ ShowDataRange
    \/ OverallSummary
    \/ PatternBreakdown
    \/ DailyTrends
    \/ HourlyPatterns
    \/ UserAgents
    \/ ErrorTypes
    \/ PerformanceCorrelation

SpecLive == Init /\ [][NextLive]_vars /\ WF_vars(Sequencing) /\ WF_pc(SectionEnds)

-----------------------------------------------------------------------------
(* The classifiers on their own: a URL is drawn and classified.            *)

UrlFragments ==
    { "/cart", "/checkout/payment", "/payment-retry", "/billing/", "/checkout",
      "/start", "/shipping", "/success", "/login", "/order/", "/home",
      "/Basket/", "/PayPal", "/items" }

RECURSIVE UrlsOfLength(_)
UrlsOfLength(n) ==
    IF n = 0 THEN {""} ELSE {f \o u : f \in UrlFragments, u \in UrlsOfLength(n - 1)}

Urls == UNION {UrlsOfLength(n) : n \in 1..MaxFrags}

InitClassify ==
    /\ pc = "run"
    /\ n_files = 0
    /\ processed_files = 0
    /\ input = <<>>
    /\ total_lines = 0
    /\ parsed_lines = 0
    /\ all_requests = <<>>
    /\ checkout_requests = <<>>
    /\ checkout_errors = <<>>
    /\ report = NoReport
    /\ cl_pc = "input"
    /\ cl_url \in Urls
    /\ cl_out = <<>>
    /\ tr_pc = "off"
    /\ tr_stats = EmptyDict
    /\ tr_rows = <<>>
    /\ pa_pc = "off"
    /\ pa_client = ""
    /\ pa_target = ""
    /\ pa_out = <<>>

\* lines 238 to 241 of analyze_logs on the URL
ClassifyUrl ==
    /\ cl_pc = "input"
    /\ cl_pc' = "classified"
    /\ cl_out' = [ related |-> is_checkout_related(cl_url),
                   checkout_stage |-> categorize_checkout_stage(cl_url),
                   pattern_category |-> get_pattern_category(cl_url) ]
    /\ UNCHANGED cl_url
    /\ UNCHANGED pipeline_vars
    /\ UNCHANGED trend_vars
    /\ UNCHANGED parser_vars

NextClassify == ClassifyUrl

SpecClassify == InitClassify /\ [][NextClassify]_vars

-----------------------------------------------------------------------------
(* The table of dates on its own: a daily_stats table is drawn and its     *)
(* rows are computed, so that dates with hundreds of requests are reached. *)

\* the most dates of a drawn table
MaxDays == 2

\* the buckets drawn: total, checkout and errors of one date
TrendBuckets ==
    { [total |-> 1000, checkout |-> 1000, errors |-> 10],
      [total |-> 1000, checkout |-> 1000, errors |-> 13],
      [total |-> 1000, checkout |-> 1000, errors |-> 7],
      [total |-> 1000, checkout |-> 1000, errors |-> 15],
      [total |-> 25,   checkout |-> 20,   errors |-> 3],
      [total |-> 200,  checkout |-> 200,  errors |-> 29],
      [total |-> 40,   checkout |-> 40,   errors |-> 11],
      [total |-> 250,  checkout |-> 200,  errors |-> 54],
      [total |-> 5,    checkout |-> 0,    errors |-> 0] }

Dates == <<"2024-03-01", "2024-03-02", "2024-03-03", "2024-03-04", "2024-03-05">>

\* the table that holds buckets[i] for the i-th date; the keys were inserted
\* latest date first
DailyStatsFrom(buckets) ==
    [ order |-> [i \in 1..Len(buckets) |-> Dates[Len(buckets) + 1 - i]],
      at    |-> [d \in {Dates[i] : i \in 1..Len(buckets)} |->
                    buckets[CHOOSE i \in 1..Len(buckets) : Dates[i] = d]] ]

\* four dates with rates 1.0, 1.3, 1.3 and 0.7 per cent
ExampleBuckets ==
    << [total |-> 1000, checkout |-> 1000, errors |-> 10],
       [total |-> 1000, checkout |-> 1000, errors |-> 13],
       [total |-> 1000, checkout |-> 1000, errors |-> 13],
       [total |-> 1000, checkout |-> 1000, errors |-> 7] >>

BucketSeqs ==
    UNION {[1..n -> TrendBuckets] : n \in 1..MaxDays} \cup {ExampleBuckets}

InitTrend ==
    /\ pc = "run"
    /\ n_files = 0
    /\ processed_files = 0
    /\ input = <<>>
    /\ total_lines = 0
    /\ parsed_lines = 0
    /\ all_requests = <<>>
    /\ checkout_requests = <<>>
    /\ checkout_errors = <<>>
    /\ report = NoReport
    /\ cl_pc = "off"
    /\ cl_url = ""
    /\ cl_out = <<>>
    /\ tr_pc = "input"
    /\ tr_stats \in {DailyStatsFrom(b) : b \in BucketSeqs}
    /\ tr_rows = <<>>
    /\ pa_pc = "off"
    /\ pa_client = ""
    /\ pa_target = ""
    /\ pa_out = <<>>

\* lines 401 to 422 of analyze_daily_trends on the table
LabelTrends ==
    /\ tr_pc = "input"
    /\ tr_pc' = "labelled"
    /\ tr_rows' = DailyRows(tr_stats)
    /\ UNCHANGED tr_stats
    /\ UNCHANGED pipeline_vars
    /\ UNCHANGED classifier_vars
    /\ UNCHANGED parser_vars

NextTrend == LabelTrends

SpecTrend == InitTrend /\ [][NextTrend]_vars

-----------------------------------------------------------------------------
(* The parser on its own: a line is built around a client:port field and a *)
(* target:port field, and parse_log_line is applied to it.                 *)

\* hosts as a load balancer writes them: IPv4 addresses and IPv6 addresses
Hosts ==
    { "203.0.113.7", "10.0.0.5", "192.168.1.20", "2001:db8::1", "::1",
      "fe80::1ff:fe23:4567:890a", "2001:db8:0:0:0:0:2:1" }

Ports == {"80", "8080", "50122"}

HostPorts == {h \o ":" \o p : h \in Hosts, p \in Ports}

\* a line of the 16-field shape with these client and target fields
HostLine(client, target) ==
    "https " \o Day1Hour10 \o " app/shop/1 " \o client \o " " \o target
        \o " 0.125 0.25 0.125 200 200 120 512 \"GET /cart HTTP/1.1\" \""
        \o UaDesktop \o "\" - -\n"

InitParse ==
    /\ pc = "run"
    /\ n_files = 0
    /\ processed_files = 0
    /\ input = <<>>
    /\ total_lines = 0
    /\ parsed_lines = 0
    /\ all_requests = <<>>
    /\ checkout_requests = <<>>
    /\ checkout_errors = <<>>
    /\ report = NoReport
    /\ cl_pc = "off"
    /\ cl_url = ""
    /\ cl_out = <<>>
    /\ tr_pc = "off"
    /\ tr_stats = EmptyDict
    /\ tr_rows = <<>>
    /\ pa_pc = "input"
    /\ pa_client \in HostPorts
    /\ pa_target \in HostPorts \cup {"-"}
    /\ pa_out = <<>>

\* parse_log_line on the line
ParseHostLine ==
    /\ pa_pc = "input"
    /\ pa_pc' = "parsed"
    /\ pa_out' = parse_log_line(HostLine(pa_client, pa_target))
    /\ UNCHANGED <<pa_client, pa_target>>
    /\ UNCHANGED pipeline_vars
    /\ UNCHANGED classifier_vars
    /\ UNCHANGED trend_vars

NextParse == ParseHostLine

SpecParse == InitParse /\ [][NextParse]_vars

-----------------------------------------------------------------------------
(* The terms in which the properties are stated: what a line is, read by   *)
(* the glossary of the specification and not by the gate of analyze_logs.  *)

\* the URL of a request line: the second of its space-separated parts
RequestUrl(request) ==
    IF Len(SplitOn(request, " ")) >= 2 THEN <<StripQuotes(SplitOn(request, " ")[2])>> ELSE <<>>

FactsOfDict(d, url) ==
    [ parses     |-> TRUE,
      record     |-> d,
      \* analyzable: the record carries a backend status
      analyzable |-> d.backend_status_code # <<>>,
      status     |-> d.backend_status_code,
      \* checkout-related: the request line yields a URL and the URL matches
      related    |-> url # <<>> /\ is_checkout_related(url[1]),
      date       |-> PySlice(d.timestamp, 0, 10),
      hour       |-> PySlice(d.timestamp, 11, 13) ]

FactsOfParsed(parsed) ==
    IF parsed.kind = "dict" THEN FactsOfDict(parsed.dict, RequestUrl(parsed.dict.request))
    ELSE [ parses |-> FALSE, record |-> <<>>, analyzable |-> FALSE, status |-> <<>>,
           related |-> FALSE, date |-> "", hour |-> "" ]

Facts == [line \in Lines |-> FactsOfParsed(ParseExcept(ParseTry(line)))]

\* the facts of the i-th line read
Fact(i) == Facts[input[i][2]]

\* the lines read so far that satisfy Test
LinesWhere(Test(_)) == {i \in 1..Len(input) : Test(Fact(i))}

HasStatus(f) == f.parses /\ f.analyzable

\* the record of a line is among the entries of a list: an entry holds the
\* keys of the parsed record, and more when it was classified
SameRecord(entry, record) == \A k \in DOMAIN record : entry[k] = record[k]

InList(list, record) == \E j \in 1..Len(list) : SameRecord(list[j], record)

\* counter[k], 0 for a key the counter does not hold
CountAt(counter, k) == IF DictHas(counter, k) THEN counter.at[k] ELSE 0

\* the lines read are exactly these, in this order
InputIs(lines) ==
    /\ Len(input) = Len(lines)
    /\ \A i \in 1..Len(lines) : input[i][2] = lines[i]

\* line is among the lines read
WasRead(line) == \E i \in 1..Len(input) : input[i][2] = line

-----------------------------------------------------------------------------
(* C1.  After the pass the counters are the counts of the records: total   *)
(* requests is the number of records counted on ingestion, checkout        *)
(* requests is the number of analyzable records with a checkout-related    *)
(* URL, checkout errors is the number of those with backend status >= 500, *)
(* the status-code table maps each status s >= 500 to the number of        *)
(* checkout records with status s; the two-line input (GET                 *)
(* /checkout/payment with 502, GET /home with 200) gives total 2, checkout *)
(* 1, errors 1, funnel stage Payment Processing and status codes {502: 1}. *)

IsCheckoutRecord(f) == HasStatus(f) /\ f.related

IsCheckoutError(f) == IsCheckoutRecord(f) /\ f.status[1] >= 500

C1_StatusTable(table) ==
    /\ \A i \in LinesWhere(IsCheckoutError) :
          CountAt(table, Fact(i).status[1])
              = Cardinality({j \in LinesWhere(IsCheckoutError) :
                                 Fact(j).status[1] = Fact(i).status[1]})
    /\ \A k \in 1..Len(table.order) :
          \E i \in LinesWhere(IsCheckoutError) : Fact(i).status[1] = table.order[k]

C1_Scenario ==
    (pc = "done" /\ InputIs(<<LinePayment502, LineHome200>>)) =>
        /\ report.overall_summary[1].total_requests = 2
        /\ report.overall_summary[1].total_checkout_requests = 1
        /\ report.overall_summary[1].total_checkout_errors = 1
        /\ checkout_errors[1].checkout_stage = "Payment Processing"
        /\ report.error_types[1].status_code_errors.order = <<502>>
        /\ report.error_types[1].status_code_errors.at[502] = 1

C1_CountersAreRecordCounts ==
    /\ Len(all_requests) = parsed_lines
    /\ Len(checkout_requests) = Cardinality(LinesWhere(IsCheckoutRecord))
    /\ Len(checkout_errors) = Cardinality(LinesWhere(IsCheckoutError))
    /\ report.overall_summary # <<>> =>
          /\ report.overall_summary[1].total_requests = parsed_lines
          /\ report.overall_summary[1].total_checkout_requests
                = Cardinality(LinesWhere(IsCheckoutRecord))
          /\ report.overall_summary[1].total_checkout_errors
                = Cardinality(LinesWhere(IsCheckoutError))
    /\ report.error_types # <<>> => C1_StatusTable(report.error_types[1].status_code_errors)
    /\ C1_Scenario

-----------------------------------------------------------------------------
(* C2.  As claimed: every line that parses adds one to total requests and  *)
(* to the total of its date and of its hour, with or without a backend     *)
(* status, checkout-related or not, so that total requests is the number   *)
(* of lines that parsed.                                                   *)
(* As amended: a parsed line adds one to the three totals exactly when its *)
(* backend status is present and not 0, checkout-related or not; total     *)
(* requests is the number of such lines.                                   *)

Parses(f) == f.parses

\* the gate of the amended statement
StatusPresentAndNonZero(f) == f.parses /\ f.status # <<>> /\ f.status[1] # 0

\* the total of a bucket table for key k, 0 without a bucket
BucketTotal(table, k) == IF DictHas(table, k) THEN table.at[k].total ELSE 0

\* the totals of the date and hour tables count the lines that satisfy Test
TotalsCount(Test(_)) ==
    /\ Len(all_requests) = Cardinality(LinesWhere(Test))
    /\ report.daily_trends # <<>> =>
          \A i \in LinesWhere(Parses) :
              BucketTotal(report.daily_trends[1].daily_stats, Fact(i).date)
                  = Cardinality({j \in LinesWhere(Test) : Fact(j).date = Fact(i).date})
    /\ report.hourly_patterns # <<>> =>
          \A i \in LinesWhere(Parses) :
              BucketTotal(report.hourly_patterns[1].hourly_stats, Fact(i).hour)
                  = Cardinality({j \in LinesWhere(Test) : Fact(j).hour = Fact(i).hour})

C2_TotalsCountEveryParsedLine == TotalsCount(Parses)

C2_TotalsCountLinesWithStatus ==
    /\ TotalsCount(StatusPresentAndNonZero)
    /\ parsed_lines = Cardinality(LinesWhere(StatusPresentAndNonZero))

\* a record that is not checkout-related and one without backend status
\* were read, and the date and hour tables are built
C2_Witness ==
    /\ WasRead(LineHome200)
    /\ WasRead(LineNoBackend)
    /\ report.hourly_patterns # <<>>
    /\ Len(all_requests) = 1

-----------------------------------------------------------------------------
(* C3.  A parsed record is left out of the checkout accounting if and only *)
(* if its backend status is absent: reading a record without backend       *)
(* status changes no checkout list, and reading a record with a backend    *)
(* status (any integer, 0 included) takes it to the relevance test, so it  *)
(* joins the checkout records exactly when its URL is checkout-related.    *)

\* the step reads one more line
ReadsLine == Len(input') = Len(input) + 1

\* the facts of the line this step reads
FactRead == Facts[input'[Len(input')][2]]

C3_StepDiscardsIffNoStatus ==
    (ReadsLine /\ FactRead.parses) =>
        /\ ~FactRead.analyzable =>
              UNCHANGED <<checkout_requests, checkout_errors>>
        /\ FactRead.analyzable =>
              (Len(checkout_requests') = Len(checkout_requests) + 1 <=> FactRead.related)

C3_DiscardedIffStatusAbsent == [][C3_StepDiscardsIffNoStatus]_vars

-----------------------------------------------------------------------------
(* C4.  Relevance gating: in every state a record is among the classified  *)
(* (checkout) records if and only if it is analyzable and its URL is       *)
(* checkout-related; a record that reaches the relevance test and does not *)
(* match is in no checkout list and still counts in the total.             *)

C4_ClassifiedIffAnalyzableAndRelated ==
    \A i \in LinesWhere(Parses) :
        /\ InList(checkout_requests, Fact(i).record)
              <=> (Fact(i).analyzable /\ Fact(i).related)
        /\ (Fact(i).analyzable /\ ~Fact(i).related) =>
              /\ ~InList(checkout_errors, Fact(i).record)
              /\ InList(all_requests, Fact(i).record)

-----------------------------------------------------------------------------
(* Ordered chains, stated without the code's conditional: a list of tests  *)
(* in the claimed order, and the label of the earliest test that matches.  *)

\* term occurs in url at position i, letters compared without regard to case
OccursAt(term, url, i) == \A j \in 1..Len(term) : LowerCh(Ch(url, i + j - 1)) = Ch(term, j)

OccursIgnoringCase(term, url) ==
    \E i \in 1..(Len(url) - Len(term) + 1) : OccursAt(term, url, i)

\* the test matches: one of its fragments occurs in the URL
TestMatches(test, url) ==
    \E k \in 1..Len(test.fragments) : OccursIgnoringCase(test.fragments[k], url)

\* the label of the earliest test of the chain that matches, else fallback
EarliestMatch(chain, fallback, url) ==
    IF \E k \in 1..Len(chain) : TestMatches(chain[k], url)
    THEN chain[CHOOSE k \in 1..Len(chain) :
                   /\ TestMatches(chain[k], url)
                   /\ \A e \in 1..(k - 1) : ~TestMatches(chain[e], url)].label
    ELSE fallback

-----------------------------------------------------------------------------
(* C5.  funnelStage is a first-match-wins chain in the order Cart          *)
(* Operations, Checkout Initiation, Shipping/Address, Payment Processing,  *)
(* Order Completion, Account/Authentication, General Checkout, else Other  *)
(* E-commerce: the label of a URL is that of the earliest test whose       *)
(* fragment occurs in it, case ignored; the same URL always gets the same  *)
(* label; a URL with a cart fragment and a payment fragment gets Cart      *)
(* Operations.                                                             *)

FunnelStageOrder ==
    << [label |-> "Cart Operations",        fragments |-> StageCartTerms],
       [label |-> "Checkout Initiation",    fragments |-> StageInitTerms],
       [label |-> "Shipping/Address",       fragments |-> StageShippingTerms],
       [label |-> "Payment Processing",     fragments |-> StagePaymentTerms],
       [label |-> "Order Completion",       fragments |-> StageCompletionTerms],
       [label |-> "Account/Authentication", fragments |-> StageAccountTerms],
       [label |-> "General Checkout",       fragments |-> <<"checkout">>] >>

C5_FunnelStageFirstMatchWins ==
    cl_pc = "classified" =>
        /\ cl_out.checkout_stage = EarliestMatch(FunnelStageOrder, "Other E-commerce", cl_url)
        /\ cl_out.checkout_stage = categorize_checkout_stage(cl_url)
        /\ (TestMatches(FunnelStageOrder[1], cl_url) /\ TestMatches(FunnelStageOrder[4], cl_url))
              => cl_out.checkout_stage = "Cart Operations"

\* a URL with a cart fragment and a payment fragment was classified
C5_Witness ==
    /\ cl_pc = "classified"
    /\ cl_url = "/cart/checkout/payment"
    /\ cl_out.checkout_stage = "Cart Operations"

-----------------------------------------------------------------------------
(* C6.  patternCategory is a chain of its own: Shopping Cart, then Payment *)
(* Processing, then Order Completion, then Checkout Process, else Other    *)
(* Checkout; every URL gets exactly one of the five labels, the same URL   *)
(* always the same one, and a URL that holds /billing/ and no cart         *)
(* fragment gets Payment Processing.                                       *)

PatternCategoryOrder ==
    << [label |-> "Shopping Cart",      fragments |-> PatternCartTerms],
       [label |-> "Payment Processing", fragments |-> PatternPaymentTerms],
       [label |-> "Order Completion",   fragments |-> PatternOrderTerms],
       [label |-> "Checkout Process",   fragments |-> PatternCheckoutTerms] >>

PatternLabels ==
    { "Shopping Cart", "Payment Processing", "Order Completion", "Checkout Process",
      "Other Checkout" }

C6_PatternCategoryFirstMatchWins ==
    cl_pc = "classified" =>
        /\ cl_out.pattern_category = EarliestMatch(PatternCategoryOrder, "Other Checkout", cl_url)
        /\ cl_out.pattern_category \in PatternLabels
        /\ cl_out.pattern_category = get_pattern_category(cl_url)
        /\ (OccursIgnoringCase("/billing/", cl_url) /\ ~TestMatches(PatternCategoryOrder[1], cl_url))
              => cl_out.pattern_category = "Payment Processing"

\* a URL with /billing/, a checkout fragment and no cart fragment was
\* classified, and the funnel stage of the same URL is another label
C6_Witness ==
    /\ cl_pc = "classified"
    /\ cl_url = "/checkout/billing/"
    /\ cl_out.pattern_category = "Payment Processing"
    /\ cl_out.checkout_stage = "Payment Processing"

-----------------------------------------------------------------------------
(* Latency samples, in thousandths of a second.                            *)

\* the sum of the three latency fields of a record, as stored
CombinedLatency(r) ==
    r.request_processing_time + r.backend_processing_time + r.response_processing_time

\* the combined latencies of the checkout records that satisfy Routed and
\* have a positive combined latency, in the order of ingestion
SamplesWhere(Routed(_)) ==
    MapSeq(SelectSeq(checkout_requests, LAMBDA r : Routed(r) /\ CombinedLatency(r) > 0),
           CombinedLatency)

\* the performance section has run on at least one checkout record
LatenciesSampled ==
    /\ report.performance_correlation # <<>>
    /\ report.performance_correlation[1].ran

success_latencies == report.performance_correlation[1].success_times

error_latencies == report.performance_correlation[1].error_times

-----------------------------------------------------------------------------
(* C7.  As claimed: a checkout record with positive combined latency is    *)
(* sampled in exactly one sequence, the error latencies if its backend     *)
(* status is >= 500 and the success latencies if it is < 500 (4xx          *)
(* included); a record whose combined latency is zero or negative is in    *)
(* neither.                                                                *)
(* As amended: the success latencies hold the records with status < 400,   *)
(* the error latencies those with status >= 500, a record with status 400  *)
(* to 499 is in neither; the combined latency is the plain sum of the      *)
(* three stored fields, and a record whose sum is zero or negative is in   *)
(* neither.                                                                *)

StatusAtLeast500(r) == r.backend_status_code[1] >= 500

StatusBelow500(r) == r.backend_status_code[1] < 500

StatusBelow400(r) == r.backend_status_code[1] < 400

C7_SuccessSamplesStatusBelow500 ==
    LatenciesSampled =>
        /\ error_latencies = SamplesWhere(StatusAtLeast500)
        /\ success_latencies = SamplesWhere(StatusBelow500)

C7_SuccessSamplesStatusBelow400 ==
    LatenciesSampled =>
        /\ error_latencies = SamplesWhere(StatusAtLeast500)
        /\ success_latencies = SamplesWhere(StatusBelow400)
        /\ Len(success_latencies) + Len(error_latencies) <= Len(checkout_requests)

\* a 4xx record and a 5xx record, both with positive combined latency, were
\* read and the latencies are sampled: the 5xx one is the only sample
C7_Witness ==
    /\ LatenciesSampled
    /\ WasRead(LineCart404)
    /\ WasRead(LinePayment502)
    /\ success_latencies = <<>>
    /\ error_latencies = <<500>>

-----------------------------------------------------------------------------
(* C8.  No latency enters the aggregation as a negative number: a latency  *)
(* field of a parsed record is a non-negative duration or the unmeasured   *)
(* sentinel, an unmeasured field never lowers the combined latency of its  *)
(* record (fields -1, a, b are never sampled as a + b - 1), and every      *)
(* sample of both latency sequences is strictly positive.                  *)

\* -1 second: what parse_log_line stores for the text -1
UnmeasuredLatency == -1000

Measured(t) == IF t = UnmeasuredLatency THEN 0 ELSE t

\* the sum of the measured latency fields of a record
MeasuredLatency(r) ==
    Measured(r.request_processing_time) + Measured(r.backend_processing_time)
        + Measured(r.response_processing_time)

\* every sample is the measured latency of a checkout record
SamplesAreMeasured(samples) ==
    \A j \in 1..Len(samples) :
        /\ samples[j] > 0
        /\ \E k \in 1..Len(checkout_requests) :
               samples[j] = MeasuredLatency(checkout_requests[k])

LatencyFieldsOf(r) ==
    {r.request_processing_time, r.backend_processing_time, r.response_processing_time}

C8_UnmeasuredNeverLowersLatency ==
    /\ \A k \in 1..Len(all_requests) :
           \A t \in LatencyFieldsOf(all_requests[k]) : t >= 0 \/ t = UnmeasuredLatency
    /\ LatenciesSampled =>
           /\ SamplesAreMeasured(success_latencies)
           /\ SamplesAreMeasured(error_latencies)

-----------------------------------------------------------------------------
(* C9.  A line that has not the 16-field shape, or that has a non-numeric  *)
(* value in a numeric field, makes parse_log_line return None instead of   *)
(* raising; reading it changes no counter, list or table of the analysis,  *)
(* and the lines after it are still parsed and ingested.                   *)

MalformedLines == {LineTruncated, LineBadLatency, LineBadStatus}

\* the line this step reads
LineRead == input'[Len(input')][2]

C9_StepSkipsMalformedLine ==
    (ReadsLine /\ LineRead \in MalformedLines) =>
        /\ parse_log_line(LineRead) = PyNone
        /\ pc' = "reading"
        /\ total_lines' = total_lines + 1
        /\ UNCHANGED <<parsed_lines, all_requests, checkout_requests, checkout_errors, report>>

\* a line that passes the status gate is ingested wherever it stands
C9_LaterLinesIngested ==
    \A j \in 1..Len(input) :
        (\E i \in 1..(j - 1) : input[i][2] \in MalformedLines) =>
            (StatusPresentAndNonZero(Fact(j)) => InList(all_requests, Fact(j).record))

C9_MalformedLineIsSkipped == [][C9_StepSkipsMalformedLine]_vars /\ []C9_LaterLinesIngested

\* a malformed line was read, then a well-formed checkout error after it,
\* which was ingested
C9_Witness ==
    /\ Len(input) = 2
    /\ input[1][2] = LineBadLatency
    /\ input[2][2] = LinePayment502
    /\ total_lines = 2
    /\ parsed_lines = 1
    /\ Len(checkout_errors) = 1

-----------------------------------------------------------------------------
(* C10.  As claimed: every derived rate whose denominator is zero (overall *)
(* error rate, checkout-traffic percentage, per-date, per-hour and         *)
(* per-category error rates, bot, human, mobile and desktop error rates,   *)
(* hourly averages) evaluates to exactly 0, and no division error occurs,  *)
(* also on an empty input.                                                 *)
(* As amended: the same, except that the bot, human, mobile and desktop    *)
(* error rates of a class with zero requests are not computed at all (the  *)
(* request count alone is reported); the share of all errors of a class    *)
(* with requests is 0 when there is no error.                              *)

RateIsZero(q) == ~q.raised /\ q.num = 0

SummaryRatesSafe(r) ==
    /\ ~summary_raised(r)
    /\ r.total_checkout_requests = 0 => RateIsZero(r.checkout_error_rate)
    /\ (r.total_checkout_requests = 0 \/ r.total_requests = 0)
          => RateIsZero(r.checkout_traffic_pct)

PatternRatesSafe(r) ==
    \A i \in 1..Len(r.rows) :
        /\ ~r.rows[i].error_rate.raised
        /\ r.rows[i].requests = 0 => RateIsZero(r.rows[i].error_rate)

DailyRatesSafe(r) ==
    \A i \in 1..Len(r.rows) :
        /\ ~r.rows[i].error_rate.raised
        /\ r.rows[i].checkout = 0 => RateIsZero(r.rows[i].error_rate)

HourlyRatesSafe(r) ==
    /\ ~hourly_raised(r)
    /\ \A i \in 1..Len(r.rows) :
          /\ r.hourly_stats.at[r.rows[i].hour].checkout = 0
                => RateIsZero(r.rows[i].error_rate)
          /\ r.total_days = 0 =>
                /\ RateIsZero(r.rows[i].avg_total)
                /\ RateIsZero(r.rows[i].avg_checkout)
                /\ RateIsZero(r.rows[i].avg_errors)

\* a class rate: rate_of_empty_class when the class has no request
ClassRateSafe(class_requests, rate, rate_of_empty_class) ==
    IF class_requests = 0 THEN rate = rate_of_empty_class
    ELSE rate # <<>> /\ ~rate[1].raised

ClassShareSafe(class_requests, share, total_errors, rate_of_empty_class) ==
    IF class_requests = 0 THEN share = rate_of_empty_class
    ELSE share # <<>> /\ ~share[1].raised /\ (total_errors = 0 => RateIsZero(share[1]))

UserAgentRatesSafe(r, rate_of_empty_class) ==
    /\ ClassRateSafe(r.bot_requests, r.bot_error_rate, rate_of_empty_class)
    /\ ClassRateSafe(r.human_requests, r.human_error_rate, rate_of_empty_class)
    /\ ClassRateSafe(r.mobile_requests, r.mobile_error_rate, rate_of_empty_class)
    /\ ClassRateSafe(r.desktop_requests, r.desktop_error_rate, rate_of_empty_class)
    /\ ClassShareSafe(r.bot_requests, r.bot_error_pct, Len(checkout_errors),
                      rate_of_empty_class)
    /\ ClassShareSafe(r.human_requests, r.human_error_pct, Len(checkout_errors),
                      rate_of_empty_class)

PerformanceRatesSafe(r) == ~performance_raised(r)

RatesSafe(rate_of_empty_class) ==
    /\ report.overall_summary # <<>> => SummaryRatesSafe(report.overall_summary[1])
    /\ report.pattern_breakdown # <<>> => PatternRatesSafe(report.pattern_breakdown[1])
    /\ report.daily_trends # <<>> => DailyRatesSafe(report.daily_trends[1])
    /\ report.hourly_patterns # <<>> => HourlyRatesSafe(report.hourly_patterns[1])
    /\ report.user_agents # <<>>
          => UserAgentRatesSafe(report.user_agents[1], rate_of_empty_class)
    /\ report.performance_correlation # <<>>
          => PerformanceRatesSafe(report.performance_correlation[1])
    \* the run is ended early only when there is no log file
    /\ pc = "exit1" => (n_files = 0 /\ report = NoReport)

C10_EveryZeroDenominatorRateIsZero == RatesSafe(<<ZeroRate>>)

C10_ZeroDenominatorRateIsZeroOrNotComputed == RatesSafe(<<>>)

\* the report is complete for an input with a date that has requests and no
\* checkout request, no bot request and no desktop request
C10_Witness ==
    /\ pc = "done"
    /\ WasRead(LineHome200)
    /\ WasRead(LineCart404)
    /\ report.user_agents[1].bot_requests = 0
    /\ report.user_agents[1].desktop_requests = 0
    /\ report.user_agents[1].bot_error_rate = <<>>
    /\ \E i \in 1..Len(report.daily_trends[1].rows) :
           /\ report.daily_trends[1].rows[i].total > 0
           /\ report.daily_trends[1].rows[i].checkout = 0
           /\ RateIsZero(report.daily_trends[1].rows[i].error_rate)

\* the report is complete for files that hold no line: every rate of the
\* summary is 0
C10_WitnessEmptyInput ==
    /\ pc = "done"
    /\ input = <<>>
    /\ RateIsZero(report.overall_summary[1].checkout_error_rate)
    /\ RateIsZero(report.overall_summary[1].checkout_traffic_pct)

-----------------------------------------------------------------------------
(* C11.  Trend deadband: with the dates in ascending order the first date  *)
(* has no trend label, and a later date d with previous date p is labelled *)
(* worsening iff rate(d) > rate(p) + 0.5 percentage points, improving iff  *)
(* rate(d) < rate(p) - 0.5, stable otherwise (a change of exactly 0.5 is   *)
(* stable); the previous date is the one just before in the table, also    *)
(* when it has no checkout request (rate 0).  Rates 1.0, 1.3, 1.3 and 0.7  *)
(* per cent give stable, stable, improving.                                *)

\* the error rate of a bucket as the fraction num / den of a per cent
RateNum(bucket) == IF bucket.checkout > 0 THEN 100 * bucket.errors ELSE 0

RateDen(bucket) == IF bucket.checkout > 0 THEN bucket.checkout ELSE 1

\* rate(d) > rate(p) + 1/2, in exact arithmetic
MoreThanHalfPointAbove(d, p) ==
    2 * RateNum(d) * RateDen(p) > 2 * RateNum(p) * RateDen(d) + RateDen(d) * RateDen(p)

DeadbandLabel(d, p) ==
    IF MoreThanHalfPointAbove(d, p) THEN "WORSE"
    ELSE IF MoreThanHalfPointAbove(p, d) THEN "BETTER"
    ELSE "STABLE"

C11_TrendDeadband ==
    tr_pc = "labelled" =>
        /\ Len(tr_rows) = Len(tr_stats.order)
        /\ \A i \in 1..Len(tr_rows) : tr_rows[i].date = Dates[i]
        /\ tr_rows[1].trend = ""
        /\ \A i \in 2..Len(tr_rows) :
              tr_rows[i].trend = DeadbandLabel(tr_stats.at[Dates[i]], tr_stats.at[Dates[i - 1]])
        /\ tr_stats = DailyStatsFrom(ExampleBuckets) =>
              [i \in 1..4 |-> tr_rows[i].trend] = <<"", "STABLE", "STABLE", "BETTER">>

-----------------------------------------------------------------------------
(* The aggregate state: the three totals, the tables of the sections and   *)
(* the two latency sequences.  A table is taken as a mapping from its keys *)
(* (the order of insertion does not count).                                *)

KeysOf(d) == {d.order[i] : i \in 1..Len(d.order)}

ValueOr(d, k, zero) == IF DictHas(d, k) THEN d.at[k] ELSE zero

\* the key-wise sum of two tables whose values are added by Plus
MergeTables(a, b, zero, Plus(_, _)) ==
    [k \in KeysOf(a) \cup KeysOf(b) |-> Plus(ValueOr(a, k, zero), ValueOr(b, k, zero))]

PlusInt(x, y) == x + y

MergeCounters(a, b) == MergeTables(a, b, 0, PlusInt)

PlusBucket(x, y) ==
    [total |-> x.total + y.total, checkout |-> x.checkout + y.checkout,
     errors |-> x.errors + y.errors]

PlusCategory(x, y) ==
    [requests |-> x.requests + y.requests, errors |-> x.errors + y.errors,
     urls |-> MergeCounters(x.urls, y.urls)]

\* the latency sequences of a performance section (none when it returned
\* early on an empty checkout list)
SuccessTimesOf(perf) == IF perf.ran THEN perf.success_times ELSE <<>>

ErrorTimesOf(perf) == IF perf.ran THEN perf.error_times ELSE <<>>

\* the aggregate state held by the results of the sections
AggregateState(summary, pattern, daily, hourly, types, perf) ==
    [ total_requests |-> summary.total_requests,
      total_checkout_requests |-> summary.total_checkout_requests,
      total_checkout_errors |-> summary.total_checkout_errors,
      daily_stats |-> daily.daily_stats,
      hourly_stats |-> hourly.hourly_stats,
      funnel_stats |-> pattern.funnel_stats,
      status_code_errors |-> types.status_code_errors,
      stage_errors |-> types.stage_errors,
      success_times |-> SuccessTimesOf(perf),
      error_times |-> ErrorTimesOf(perf) ]

\* the aggregate state of the run in progress, once every section has run
FinalAggregate ==
    AggregateState(report.overall_summary[1], report.pattern_breakdown[1],
                   report.daily_trends[1], report.hourly_patterns[1],
                   report.error_types[1], report.performance_correlation[1])

RECURSIVE ListsAfter(_, _)
\* the three lists after the loop body has run on each line of lines, from
\* the lists in lists
ListsAfter(lines, lists) ==
    IF lines = <<>> THEN lists
    ELSE LET o == LineOutcome[Head(lines)]
         IN  ListsAfter(Tail(lines),
                 [ all |-> IF o.counted THEN Append(lists.all, o.entry) ELSE lists.all,
                   checkout |-> IF o.checkout THEN Append(lists.checkout, o.entry)
                                ELSE lists.checkout,
                   errors |-> IF o.error THEN Append(lists.errors, o.entry)
                              ELSE lists.errors ])

\* the tables as the sections fill them, without the rows they print
AggregateOfLists(l) ==
    [ total_requests |-> Len(l.all),
      total_checkout_requests |-> Len(l.checkout),
      total_checkout_errors |-> Len(l.errors),
      daily_stats |-> DailyStatsOf(l.all, l.checkout, l.errors),
      hourly_stats |->
          BucketStats(MapSeq(l.all, HourOf), MapSeq(l.checkout, HourOf),
                      MapSeq(l.errors, HourOf)),
      funnel_stats |->
          FunnelErrors(StatsBumpAll(EmptyDict, MapSeq(l.checkout, PatternCategoryOf),
                                    "requests", FreshFunnelStats),
                       l.errors),
      status_code_errors |-> CounterOf(MapSeq(l.errors, StatusOf), EmptyDict),
      stage_errors |-> StageErrors(EmptyDict, l.errors),
      success_times |->
          SuccessTimesOf(analyze_performance_correlation(l.all, l.checkout, l.errors)),
      error_times |->
          ErrorTimesOf(analyze_performance_correlation(l.all, l.checkout, l.errors)) ]

\* the aggregate state of a run of its own over lines
RunOver(lines) ==
    AggregateOfLists(ListsAfter(lines, [all |-> <<>>, checkout |-> <<>>, errors |-> <<>>]))

EmptyAggregate == RunOver(<<>>)

\* two aggregate states merged: every counter added key-wise in every table,
\* the latency sequences concatenated
Merged(a, b) ==
    [ total_requests |-> a.total_requests + b.total_requests,
      total_checkout_requests |-> a.total_checkout_requests + b.total_checkout_requests,
      total_checkout_errors |-> a.total_checkout_errors + b.total_checkout_errors,
      daily_stats |-> MergeTables(a.daily_stats, b.daily_stats, FreshBucket, PlusBucket),
      hourly_stats |-> MergeTables(a.hourly_stats, b.hourly_stats, FreshBucket, PlusBucket),
      funnel_stats |->
          MergeTables(a.funnel_stats, b.funnel_stats, FreshFunnelStats, PlusCategory),
      status_code_errors |-> MergeCounters(a.status_code_errors, b.status_code_errors),
      stage_errors |-> MergeTables(a.stage_errors, b.stage_errors, EmptyDict, MergeCounters),
      success_times |-> a.success_times \o b.success_times,
      error_times |-> a.error_times \o b.error_times ]

\* the lines of the input, without their file numbers
InputLines == [i \in 1..Len(input) |-> input[i][2]]

Completed == pc = "done"

-----------------------------------------------------------------------------
(* C12.  Associativity of accumulation: for every input sequence S and     *)
(* every split S = A ++ B, a run over A and a run over B, merged (every    *)
(* counter of every table added key-wise, the success and the error        *)
(* latency sequences concatenated), give the aggregate state of the one    *)
(* run over S.  The aggregate state of S is the one the completed run      *)
(* holds; as a mapping it is its own merge with the empty state.           *)

C12_MergeOfSplitRunsIsWholeRun ==
    Completed =>
        \A k \in 0..Len(input) :
            Merged(RunOver(SubSeq(InputLines, 1, k)),
                   RunOver(SubSeq(InputLines, k + 1, Len(input))))
                = Merged(FinalAggregate, EmptyAggregate)

\* a completed run over two checkout errors of the same date, hour, category,
\* stage and status, each with a positive latency: every table adds two
\* counts of one key and the error latencies are concatenated
C12_Witness ==
    /\ Completed
    /\ InputIs(<<LinePayment502, LinePayment502>>)
    /\ FinalAggregate.total_checkout_errors = 2
    /\ FinalAggregate.status_code_errors.at[502] = 2
    /\ Len(FinalAggregate.error_times) = 2

-----------------------------------------------------------------------------
(* C13.  As claimed: the finished aggregate state holds a table by funnel  *)
(* stage, in which each checkout record adds one to requests of the bucket *)
(* named by its funnel-stage label and each checkout error adds one to     *)
(* errors of that bucket; every complete run produces it, beside the table *)
(* by pattern category, each keyed by its own labels.                      *)

\* the table by funnel stage of the claim
StageTable ==
    [ stage \in {checkout_requests[i].checkout_stage : i \in 1..Len(checkout_requests)} |->
        [ requests |-> Cardinality({i \in 1..Len(checkout_requests) :
                                        checkout_requests[i].checkout_stage = stage}),
          errors |-> Cardinality({i \in 1..Len(checkout_errors) :
                                      checkout_errors[i].checkout_stage = stage}) ] ]

\* a table of the report as a mapping from its labels to requests and errors
RequestsAndErrors(table) ==
    [ k \in KeysOf(table) |->
        [requests |-> table.at[k].requests, errors |-> table.at[k].errors] ]

\* the tables of requests and errors by label that the run has produced
TablesProduced ==
    IF report.pattern_breakdown = <<>> THEN {}
    ELSE {RequestsAndErrors(report.pattern_breakdown[1].funnel_stats)}

C13_FunnelStageTableProduced ==
    Completed => \E table \in TablesProduced : table = StageTable

-----------------------------------------------------------------------------
(* C14.  As claimed: client errors (4xx) and server errors (5xx) both      *)
(* count as checkout errors.  A checkout-related record with backend       *)
(* status in 400..499 is in the checkout-error set, and the figure         *)
(* reported as Checkout errors (4xx + 5xx) is the number of checkout       *)
(* records with backend status >= 400.                                     *)

IsClientError(f) == IsCheckoutRecord(f) /\ f.status[1] \in 400..499

IsClientOrServerError(f) == IsCheckoutRecord(f) /\ f.status[1] >= 400

C14_ClientErrorsAreCheckoutErrors ==
    /\ \A i \in LinesWhere(IsClientError) : InList(checkout_errors, Fact(i).record)
    /\ report.overall_summary # <<>> =>
           report.overall_summary[1].total_checkout_errors
               = Cardinality(LinesWhere(IsClientOrServerError))

-----------------------------------------------------------------------------
(* C15.  Once the aggregation is invoked on a finite sequence of lines,    *)
(* whatever mix of unparseable lines, records without backend status,      *)
(* non-checkout records and checkout records it holds, the run eventually  *)
(* reaches its completed state with every report section produced; no      *)
(* condition of a record stops it early or ends the process (the process   *)
(* exits with status 1 only when there is no log file to read).            *)

AllSectionsProduced == \A name \in DOMAIN report : report[name] # <<>>

Invoked == n_files > 0

C15_AggregationCompletes ==
    /\ [](pc = "exit1" => ~Invoked)
    /\ Invoked ~> (Completed /\ AllSectionsProduced)

\* a completed run whose input held an unparseable line and a checkout error
C15_Witness ==
    /\ Completed
    /\ AllSectionsProduced
    /\ InputIs(<<LineTruncated, LinePayment502>>)

\* a completed run over a record without backend status and a record that
\* is not checkout-related
C15_WitnessNoStatus ==
    /\ Completed
    /\ AllSectionsProduced
    /\ InputIs(<<LineNoBackend, LineHome200>>)

-----------------------------------------------------------------------------
(* C16.  Lifecycle ordering: the aggregate state starts empty; every line  *)
(* of every file is ingested exactly once, in file-then-line order; no     *)
(* breakdown table, scalar total or latency statistic is read or reported  *)
(* before the last line of the last file has been ingested; after the      *)
(* first read no accumulator is mutated again.                             *)

\* the accumulators of the pass
accumulators == <<total_lines, parsed_lines, all_requests, checkout_requests, checkout_errors>>

Ingesting == pc \in {"run", "next_file", "reading"}

NoLists == [all |-> <<>>, checkout |-> <<>>, errors |-> <<>>]

\* the lists hold what the loop body makes of each line read, once and in
\* the order of reading, and the lines were read file after file
IngestedOnceInOrder ==
    /\ total_lines = Len(input)
    /\ parsed_lines = Len(all_requests)
    /\ \A i \in 1..Len(input) : \A j \in i..Len(input) : input[i][1] <= input[j][1]
    /\ \A i \in 1..Len(input) : input[i][1] \in 1..processed_files
    /\ ListsAfter(InputLines, NoLists)
           = [all |-> all_requests, checkout |-> checkout_requests, errors |-> checkout_errors]

LifecycleState ==
    /\ pc = "run" => accumulators = <<0, 0, <<>>, <<>>, <<>>>> /\ report = NoReport
    /\ IngestedOnceInOrder
    \* a section has read the state only after the last file was ingested
    /\ report # NoReport => ~Ingesting /\ processed_files = n_files
    /\ ~Ingesting /\ pc # "exit1" => processed_files = n_files

LifecycleStep ==
    \* a line is ingested by a step of the loop, at the end of what was read
    /\ input' # input =>
           /\ pc = "reading"
           /\ Len(input') = Len(input) + 1
           /\ SubSeq(input', 1, Len(input)) = input
           /\ input'[Len(input')][1] = processed_files
    \* the sections run after ingestion, and from the first section on the
    \* accumulators stay as they are
    /\ ~Ingesting => accumulators' = accumulators /\ input' = input /\ ~Ingesting'
    /\ report' # report => ~Ingesting /\ accumulators' = accumulators

C16_LifecycleOrdering == []LifecycleState /\ [][LifecycleStep]_vars

\* two files of one line each were ingested and the second section is about
\* to read the state the first has read
C16_Witness ==
    /\ pc = "pattern_breakdown"
    /\ report.overall_summary # <<>>
    /\ Len(input) = 2
    /\ input[1][1] = 1
    /\ input[2][1] = 2
    /\ Len(all_requests) = 2

-----------------------------------------------------------------------------
(* C17.  As claimed: the client and the backend host:port fields are split *)
(* on the last colon and what is before it is kept as the host, so a host  *)
(* that holds colons itself (an IPv6 address followed by :port) is kept    *)
(* whole; a backend field of - gives no value.                             *)

RECURSIVE BeforeLast(_, _)
\* the text before the last sep of s (s itself when it holds none)
BeforeLast(s, sep) ==
    IF ~Contains(s, sep) THEN s
    ELSE IF Ch(s, Len(s)) = sep THEN SubSeq(s, 1, Len(s) - 1)
    ELSE BeforeLast(SubSeq(s, 1, Len(s) - 1), sep)

C17_HostIsBeforeLastColon ==
    pa_pc = "parsed" =>
        /\ pa_out.kind = "dict"
        /\ pa_out.dict.client_ip = BeforeLast(pa_client, ":")
        /\ pa_out.dict.target_ip
               = IF pa_target = "-" THEN <<>> ELSE <<BeforeLast(pa_target, ":")>>

-----------------------------------------------------------------------------
(* C18.  After any sequence of ingested lines, errors <= checkout <= total *)
(* holds for the three scalar counters and in every date bucket and every  *)
(* hour bucket, and the checkout errors are among the checkout records,    *)
(* which are among the records counted in the global total.                *)

Among(part, whole) == \A i \in 1..Len(part) : \E j \in 1..Len(whole) : whole[j] = part[i]

Ordered(errors, checkout, total) == errors <= checkout /\ checkout <= total

BucketsOrdered(table) ==
    \A k \in KeysOf(table) : Ordered(table.at[k].errors, table.at[k].checkout, table.at[k].total)

C18_ErrorsWithinCheckoutWithinTotal ==
    /\ Ordered(Len(checkout_errors), Len(checkout_requests), Len(all_requests))
    /\ Among(checkout_errors, checkout_requests)
    /\ Among(checkout_requests, all_requests)
    /\ report.overall_summary # <<>> =>
           Ordered(report.overall_summary[1].total_checkout_errors,
                   report.overall_summary[1].total_checkout_requests,
                   report.overall_summary[1].total_requests)
    /\ report.daily_trends # <<>> => BucketsOrdered(report.daily_trends[1].daily_stats)
    /\ report.hourly_patterns # <<>> => BucketsOrdered(report.hourly_patterns[1].hourly_stats)

\* a completed run with a date and an hour that hold one error, one checkout
\* record and two records in all
C18_Witness ==
    /\ Completed
    /\ Len(checkout_errors) = 1
    /\ Len(checkout_requests) = 1
    /\ Len(all_requests) = 2
    /\ \E k \in KeysOf(report.daily_trends[1].daily_stats) :
           report.daily_trends[1].daily_stats.at[k] = [total |-> 2, checkout |-> 1, errors |-> 1]
    /\ \E k \in KeysOf(report.hourly_patterns[1].hourly_stats) :
           report.hourly_patterns[1].hourly_stats.at[k]
               = [total |-> 2, checkout |-> 1, errors |-> 1]

-----------------------------------------------------------------------------
(* C19.  Conservation across breakdowns: after any sequence of ingested    *)
(* lines the total of checkout errors is the sum of the counts by status   *)
(* code, the sum of all cells of the table by stage and status, the sum of *)
(* the errors by category, by date and by hour, bot errors plus human      *)
(* errors, and mobile errors plus desktop errors; the total of checkout    *)
(* requests is the sum of the requests by category and of the checkout     *)
(* counts by date and by hour.                                             *)

\* the sum of Value over the entries of a table
SumOver(table, Value(_)) ==
    SumSeq([i \in 1..Len(table.order) |-> Value(table.at[table.order[i]])])

CountOf(n) == n

ErrorsOf(bucket) == bucket.errors

CheckoutOf(bucket) == bucket.checkout

RequestsOf(bucket) == bucket.requests

CellsOf(statuses) == SumOver(statuses, CountOf)

ErrorsConserved(n) ==
    /\ report.overall_summary # <<>> => report.overall_summary[1].total_checkout_errors = n
    /\ report.pattern_breakdown # <<>> =>
           SumOver(report.pattern_breakdown[1].funnel_stats, ErrorsOf) = n
    /\ report.daily_trends # <<>> => SumOver(report.daily_trends[1].daily_stats, ErrorsOf) = n
    /\ report.hourly_patterns # <<>> =>
           SumOver(report.hourly_patterns[1].hourly_stats, ErrorsOf) = n
    /\ report.user_agents # <<>> =>
           /\ report.user_agents[1].bot_errors + report.user_agents[1].human_errors = n
           /\ report.user_agents[1].mobile_errors + report.user_agents[1].desktop_errors = n
    /\ report.error_types # <<>> =>
           /\ SumOver(report.error_types[1].status_code_errors, CountOf) = n
           /\ SumOver(report.error_types[1].stage_errors, CellsOf) = n

CheckoutConserved(n) ==
    /\ report.overall_summary # <<>> => report.overall_summary[1].total_checkout_requests = n
    /\ report.pattern_breakdown # <<>> =>
           SumOver(report.pattern_breakdown[1].funnel_stats, RequestsOf) = n
    /\ report.daily_trends # <<>> => SumOver(report.daily_trends[1].daily_stats, CheckoutOf) = n
    /\ report.hourly_patterns # <<>> =>
           SumOver(report.hourly_patterns[1].hourly_stats, CheckoutOf) = n

C19_BreakdownsConserveTotals ==
    /\ ErrorsConserved(Len(checkout_errors))
    /\ CheckoutConserved(Len(checkout_requests))

\* a completed run over two checkout errors of different status and a
\* checkout total of two
C19_Witness ==
    /\ Completed
    /\ AllSectionsProduced
    /\ Len(checkout_errors) = 2
    /\ Len(checkout_requests) = 2
    /\ Len(report.error_types[1].status_code_errors.order) = 2

====
